---------------------------- MODULE Spec2Model ----------------------------
(***************************************************************************)
(* A model of code-quality-checker: the regex driven fact builders of the  *)
(* parser package and the algorithmic rules of the rules package.          *)
(*                                                                         *)
(* Text is a sequence of runes, each rune a one-character string; a rune   *)
(* outside ASCII is written "U+XXXX".  Offsets are 0-based as in Go, so    *)
(* At(s, i) is s[i] of the source.  The regexp package reports byte        *)
(* offsets: ByteOff converts a rune index to the byte offset Go returns.   *)
(***************************************************************************)
EXTENDS Integers, Sequences, FiniteSets, TLC

VARIABLES
    pc,           \* position of the run: which operation acted last
    content,      \* ParsedFile.Content, a sequence of runes
    typed,        \* how many steps of input the environment has given
    methodBody,   \* the string returned by extractMethodBody
    cyclomatic,   \* the int returned by calculateComplexity
    methodLength, \* the int returned by calculateMethodLength
    beforePos,    \* the offset extractAnnotations is called with
    annotations,  \* the sequence returned by extractAnnotations
    astOrigin,    \* who built ParsedFile.AST: "ParseFile" or a struct literal
    javaClass,    \* ParsedFile.AST, a *parser.JavaClass
    jsFunctions,  \* ParsedFile.AST of a script file, a []parser.JSFunction
    fileLines,    \* ParsedFile.Lines, a sequence of strings
    issues,       \* the []types.Issue a rule's Check returned
    blocks,       \* the map of checkDuplicateBlocks: key -> start lines
    yaml,         \* the configuration file as written: its language sections
    cfg,          \* the *config.Config the run works on
    cfgOrigin,    \* who built the Config: "LoadConfig" or a struct literal
    minSeverity,  \* the --min-severity flag
    rulesFilter,  \* the --rules flag, empty when it is not given
    engine,       \* Engine.rules: language -> the rules registered for it
    files,        \* the paths of the files under the target, in walk order
    checkedFile,  \* the ParsedFile a caller gave to Engine.CheckFile
    checkedLanguage, \* the language that caller gave
    result,       \* the *AnalysisResult of Analyze
    warnings,     \* the paths Analyze printed a warning for
    exitStatus    \* the exit status of the process, -1 while it runs

\* the variables of each part of the program; a specification that does not
\* run a part leaves its variables as IdleX sets them
bodyVars == <<methodBody, cyclomatic, methodLength>>
annVars  == <<beforePos, annotations>>
ruleVars == <<astOrigin, javaClass, jsFunctions, fileLines, issues>>
dupVars  == <<blocks>>
cfgVars  == <<yaml, cfg, cfgOrigin, minSeverity, rulesFilter, engine>>
runVars  == <<files, checkedFile, checkedLanguage, result, warnings, exitStatus>>

vars == <<pc, content, typed, bodyVars, annVars, ruleVars, dupVars, cfgVars, runVars>>

IdleBody == methodBody = <<>> /\ cyclomatic = 0 /\ methodLength = 0
IdleAnn  == beforePos = 0 /\ annotations = <<>>
IdleDup  == blocks = <<>>
IdleCfg  == /\ yaml = <<>> /\ cfg = <<>> /\ cfgOrigin = "none"
            /\ minSeverity = <<>> /\ rulesFilter = <<>> /\ engine = <<>>
IdleRun  == /\ files = <<>> /\ checkedFile = <<>> /\ checkedLanguage = ""
            /\ result = <<>> /\ warnings = <<>> /\ exitStatus = -1
IdleRule == /\ astOrigin = "none" /\ javaClass = <<>> /\ jsFunctions = <<>>
            /\ fileLines = <<>> /\ issues = <<>>

-----------------------------------------------------------------------------
(* Runes and strings                                                       *)

Hangul == "U+D55C"

\* utf8.RuneLen: the number of bytes of a rune in a Go string
Utf8Len(r) == IF r = Hangul THEN 3 ELSE 1

LowerLetters == {"a", "b", "c", "d", "e", "f", "g", "h", "i", "j", "k", "l", "m",
                 "n", "o", "p", "q", "r", "s", "t", "u", "v", "w", "x", "y", "z"}
UpperLetters == {"A", "B", "C", "D", "E", "F", "G", "H", "I", "J", "K", "L", "M",
                 "N", "O", "P", "Q", "R", "S", "T", "U", "V", "W", "X", "Y", "Z"}
Digits == {"0", "1", "2", "3", "4", "5", "6", "7", "8", "9"}

\* regexp class \s (RE2: [\t\n\f\r ]), which is also what strings.TrimSpace
\* removes from ASCII text
IsSpace(ch) == ch \in {" ", "\t", "\n", "\r", "\f"}

\* regexp class \w
IsWord(ch) == ch \in LowerLetters \cup UpperLetters \cup Digits \cup {"_"}

At(s, i) == s[i + 1]

\* s[from:to] of Go
Slice(s, from, to) == SubSeq(s, from + 1, to)

\* the least element of a non-empty set of integers
Min(S) == CHOOSE x \in S : \A y \in S : x <= y

\* the byte offset of rune index k in the UTF-8 encoding of s: the sum of
\* Utf8Len over the first k runes (a rune has 1 to 4 bytes)
ByteOff(s, k) ==
    Cardinality({j \in 1..k : Utf8Len(s[j]) >= 1})
    + Cardinality({j \in 1..k : Utf8Len(s[j]) >= 2})
    + Cardinality({j \in 1..k : Utf8Len(s[j]) >= 3})
    + Cardinality({j \in 1..k : Utf8Len(s[j]) >= 4})

\* the literal lit occurs in s at offset i
HasLit(s, i, lit) ==
    /\ i + Len(lit) <= Len(s)
    /\ \A k \in 1..Len(lit) : s[i + k] = lit[k]

\* \s* from offset i: the offset of the first rune that is no white space
RECURSIVE SkipSpace(_, _)
SkipSpace(s, i) ==
    IF i < Len(s) /\ IsSpace(At(s, i)) THEN SkipSpace(s, i + 1) ELSE i

\* \w* from offset i
RECURSIVE SkipWord(_, _)
SkipWord(s, i) ==
    IF i < Len(s) /\ IsWord(At(s, i)) THEN SkipWord(s, i + 1) ELSE i

\* the offset of the first ch at or after i, -1 when there is none
IndexFrom(s, i, ch) ==
    LET found == {j \in i..(Len(s) - 1) : At(s, j) = ch}
    IN  IF found = {} THEN -1 ELSE Min(found)

\* strings.Split(s, "\n"): one more element than s has "\n"; element i runs
\* from after the (i-1)-th "\n" to before the i-th
SplitLines(s) ==
    LET nl == {k \in 1..Len(s) : s[k] = "\n"}
        nth(i) == IF i = 0 THEN 0
                  ELSE IF i > Cardinality(nl) THEN Len(s) + 1
                  ELSE CHOOSE k \in nl : Cardinality({j \in nl : j < k}) = i - 1
    IN  [i \in 1..(Cardinality(nl) + 1) |-> SubSeq(s, nth(i - 1) + 1, nth(i) - 1)]

\* strings.TrimSpace
RECURSIVE TrimRight(_)
TrimRight(s) ==
    IF Len(s) > 0 /\ IsSpace(s[Len(s)]) THEN TrimRight(SubSeq(s, 1, Len(s) - 1)) ELSE s

TrimSpace(s) == TrimRight(Slice(s, SkipSpace(s, 0), Len(s)))

\* strings.HasPrefix
HasPrefix(s, prefix) == HasLit(s, 0, prefix)

-----------------------------------------------------------------------------
(* Balanced-body extractor: CyclomaticComplexityRule.extractMethodBody and *)
(* TransactionalRule.extractMethodBody (the two are the same code)         *)

\* What a Go slice expression out of range does
Panic == <<"panic: slice bounds out of range">>

\* regexp.QuoteMeta(name) + `\s*\([^)]*\)\s*\{` matched at rune offset p:
\* the rune offset after the match, -1 when there is no match at p.
MethodPatternEnd(s, name, p) ==
    IF ~HasLit(s, p, name) THEN -1
    ELSE LET q1 == SkipSpace(s, p + Len(name))
         IN  IF q1 >= Len(s) \/ At(s, q1) # "(" THEN -1
             ELSE LET q2 == IndexFrom(s, q1 + 1, ")")
                  IN  IF q2 = -1 THEN -1
                      ELSE LET q3 == SkipSpace(s, q2 + 1)
                           IN  IF q3 < Len(s) /\ At(s, q3) = "{"
                               THEN q3 + 1 ELSE -1

\* methodRegex.FindStringIndex(file.Content): the leftmost match as the pair
\* of rune offsets <<first, after>>, <<>> for nil
FindMethodIndex(s, name) ==
    LET starts == {p \in 0..(Len(s) - 1) : MethodPatternEnd(s, name, p) # -1}
    IN  IF starts = {} THEN <<>>
        ELSE <<Min(starts), MethodPatternEnd(s, name, Min(starts))>>

\* braceCount after the loop body has run for the offsets from..j: it starts
\* at 1, "{" adds 1 and "}" takes 1
BraceCount(runes, from, j) ==
    1 + Cardinality({k \in from..j : At(runes, k) = "{"})
      - Cardinality({k \in from..j : At(runes, k) = "}"})

\* the loop `for i < len(content) && braceCount > 0` started at offset from:
\* <<i, braceCount>> at exit. It leaves after the first offset that brings
\* braceCount to 0, or at len(content).
ScanBraces(runes, from) ==
    LET closed == {j \in from..(Len(runes) - 1) : BraceCount(runes, from, j) = 0}
    IN  IF closed # {} THEN <<Min(closed) + 1, 0>>
        ELSE IF from < Len(runes) THEN <<Len(runes), BraceCount(runes, from, Len(runes) - 1)>>
        ELSE <<from, 1>>

\* start is match[1] - 1, where match[1] is a BYTE offset of file.Content; the
\* scan then indexes []rune(file.Content) with it.
extractMethodBody(s, name) ==
    LET match == FindMethodIndex(s, name)
    IN  IF match = <<>> THEN <<>>
        ELSE LET start == ByteOff(s, match[2]) - 1
                 exit  == ScanBraces(s, start + 1)
             IN  IF exit[2] = 0
                 THEN IF start <= exit[1] /\ exit[1] <= Len(s)
                      THEN Slice(s, start, exit[1]) ELSE Panic
                 ELSE <<>>

-----------------------------------------------------------------------------
(* Specification SpecBody: a file text is typed rune by rune after one of  *)
(* the opening texts, then extractMethodBody runs on it for method "f".    *)

\* readFile on text without "\r" and without a line over the scanner's
\* limit: every line the scanner returns is written back with "\n", so a
\* last line without line break gets one
readFile(raw) ==
    IF raw = <<>> \/ raw[Len(raw)] = "\n" THEN raw ELSE raw \o <<"\n">>

MaxTail == 4

BodyAlphabet == {"f", "(", ")", "{", "}", " ", "x", Hangul}

BodySeeds == { <<>>,
               <<"f", "(", ")", "{">>,
               <<"f", " ", "(", "x", ")", "\n", "{">>,
               <<Hangul, "f", "(", ")", "{">>,
               <<"/", "/", Hangul, Hangul, "\n", "f", "(", ")", "{">> }

MethodName == <<"f">>

InitBody ==
    /\ pc = "edit"
    /\ content \in BodySeeds
    /\ typed = 0
    /\ IdleBody /\ IdleAnn /\ IdleRule /\ IdleDup /\ IdleCfg /\ IdleRun

\* one more rune is written to the file on disk
TypeRune(ch) ==
    /\ pc = "edit"
    /\ typed < MaxTail
    /\ content' = Append(content, ch)
    /\ typed' = typed + 1
    /\ UNCHANGED <<pc, bodyVars, annVars, ruleVars, dupVars, cfgVars, runVars>>

\* the file is read (readFile gives file.Content), then
\* r.extractMethodBody(file, method) with method.Name = "f"
ExtractBody ==
    /\ pc = "edit"
    /\ content' = readFile(content)
    /\ methodBody' = extractMethodBody(content', MethodName)
    /\ pc' = "extracted"
    /\ UNCHANGED <<typed, cyclomatic, methodLength, annVars, ruleVars, dupVars, cfgVars, runVars>>

NextBody ==
    \/ \E ch \in BodyAlphabet : TypeRune(ch)
    \/ ExtractBody

SpecBody == InitBody /\ [][NextBody]_vars

\* The opening brace of the matched declaration, as a rune offset
DeclBrace(s) == FindMethodIndex(s, MethodName)[2] - 1

\* brace depth after the runes s[b..j]: +1 for each "{", -1 for each "}"
RECURSIVE DepthAfter(_, _, _)
DepthAfter(s, b, j) ==
    IF j < b THEN 0
    ELSE DepthAfter(s, b, j - 1)
         + (IF At(s, j) = "{" THEN 1 ELSE IF At(s, j) = "}" THEN -1 ELSE 0)

\* the declaration's brace opens a correctly nested block: its depth returns to 0
CorrectlyNested(s) ==
    /\ FindMethodIndex(s, MethodName) # <<>>
    /\ \E j \in DeclBrace(s)..(Len(s) - 1) : DepthAfter(s, DeclBrace(s), j) = 0

MatchingClose(s) ==
    CHOOSE j \in DeclBrace(s)..(Len(s) - 1) :
        /\ DepthAfter(s, DeclBrace(s), j) = 0
        /\ \A k \in DeclBrace(s)..(j - 1) : DepthAfter(s, DeclBrace(s), k) > 0

\* C1: when the first match of name(...) { opens a correctly nested block, the
\* result is the text from that brace to its matching brace, and its depth trace
\* is at least 1 after every rune but the last and 0 after the last.
C1_BalancedBody ==
    (pc = "extracted" /\ CorrectlyNested(content)) =>
        /\ methodBody = Slice(content, DeclBrace(content), MatchingClose(content) + 1)
        /\ \A k \in 0..(Len(methodBody) - 2) : DepthAfter(methodBody, 0, k) >= 1
        /\ DepthAfter(methodBody, 0, Len(methodBody) - 1) = 0

\* C2: when the pattern does not match, or the declaration's braces never
\* close, the result is the empty string (no panic, no piece of text).
C2_UnbalancedEmpty ==
    (pc = "extracted" /\ ~CorrectlyNested(content)) => methodBody = <<>>

-----------------------------------------------------------------------------
(* Annotation collector: parser.extractAnnotations                          *)

\* the loop `for i := len(lines) - 1; i >= 0; i--` at index i (1-based here),
\* acc being the annotations collected so far
RECURSIVE AnnotationScan(_, _, _)
AnnotationScan(lines, i, acc) ==
    IF i < 1 THEN acc
    ELSE LET line == TrimSpace(lines[i])
         IN  IF HasPrefix(line, <<"@">>)
             THEN AnnotationScan(lines, i - 1, <<line>> \o acc)
             ELSE IF line # <<>> /\ ~HasPrefix(line, <<"/", "/">>) /\ ~HasPrefix(line, <<"*">>)
                  THEN acc
                  ELSE AnnotationScan(lines, i - 1, acc)

\* extractAnnotations without the strings.TrimSpace of line 273: a line of
\* white space is then a non-empty line and ends the scan
RECURSIVE AnnotationScanNoTrim(_, _, _)
AnnotationScanNoTrim(lines, i, acc) ==
    IF i < 1 THEN acc
    ELSE LET line == lines[i]
         IN  IF HasPrefix(line, <<"@">>)
             THEN AnnotationScanNoTrim(lines, i - 1, <<line>> \o acc)
             ELSE IF line # <<>> /\ ~HasPrefix(line, <<"/", "/">>) /\ ~HasPrefix(line, <<"*">>)
                  THEN acc
                  ELSE AnnotationScanNoTrim(lines, i - 1, acc)

extractAnnotationsNoTrim(s, pos) ==
    LET lines == SplitLines(Slice(s, 0, pos))
    IN  AnnotationScanNoTrim(lines, Len(lines), <<>>)

extractAnnotations(s, pos) ==
    LET lines == SplitLines(Slice(s, 0, pos))
    IN  AnnotationScan(lines, Len(lines), <<>>)

-----------------------------------------------------------------------------
(* Specification SpecAnn: a file is written line by line (readFile ends     *)
(* every line with "\n"), extractAnnotations collects before a line start,   *)
(* then a run of blank lines is inserted at a line start before the         *)
(* declaration and the annotations are collected again.                     *)

MaxAnnLines == 3

AnnLines == { <<"@", "A">>, <<" ", "@", "B">>, <<"/", "/", "c">>, <<"/", "*", "*">>,
              <<"*", "/">>, <<"x", ";">>, <<>> }

BlankRuns == { <<"\n">>, <<" ", "\t", "\n">>, <<"\n", " ", "\n">> }

\* the offsets at which a line starts, the end of the text included
LineStarts(s) == {0} \cup {k \in 1..Len(s) : s[k] = "\n"}

InitAnn ==
    /\ pc = "write"
    /\ content = <<>>
    /\ typed = 0
    /\ IdleBody /\ IdleAnn /\ IdleRule /\ IdleDup /\ IdleCfg /\ IdleRun

WriteLine(line) ==
    /\ pc = "write"
    /\ typed < MaxAnnLines
    /\ content' = content \o line \o <<"\n">>
    /\ typed' = typed + 1
    /\ UNCHANGED <<pc, bodyVars, annVars, ruleVars, dupVars, cfgVars, runVars>>

\* extractAnnotations(content, indices[i][0]): the offset is the start of a
\* match of a pattern that begins with (?m)^, a line start
CollectAnnotations(pos) ==
    /\ pc = "write"
    /\ beforePos' = pos
    /\ annotations' = extractAnnotations(content, pos)
    /\ pc' = "collected"
    /\ UNCHANGED <<content, typed, bodyVars, ruleVars, dupVars, cfgVars, runVars>>

\* the same file with the blank lines `run` inserted at line start k, which
\* moves the declaration by Len(run); the annotations are collected again
InsertBlankLines(k, run) ==
    /\ pc = "collected"
    /\ k <= beforePos
    /\ content' = Slice(content, 0, k) \o run \o Slice(content, k, Len(content))
    /\ beforePos' = beforePos + Len(run)
    /\ annotations' = extractAnnotations(content', beforePos')
    /\ pc' = "inserted"
    /\ UNCHANGED <<typed, bodyVars, ruleVars, dupVars, cfgVars, runVars>>

NextAnn ==
    \/ \E line \in AnnLines : WriteLine(line)
    \/ \E pos \in LineStarts(content) : CollectAnnotations(pos)
    \/ \E k \in LineStarts(content), run \in BlankRuns : InsertBlankLines(k, run)

SpecAnn == InitAnn /\ [][NextAnn]_vars

\* C9: inserting blank (white-space only) lines at a line start before the
\* declaration leaves the collected annotations unchanged, in content and order.
C9_BlankLinesInvariant ==
    [][(pc = "collected" /\ pc' = "inserted") => annotations' = annotations]_vars

\* blank lines were inserted between two annotation lines, both still collected
C9_Witness ==
    /\ pc = "inserted"
    /\ content = <<"@", "A", "\n", "\n", " ", "\n", " ", "@", "B", "\n">>
    /\ beforePos = Len(content)
    /\ annotations = << <<"@", "A">>, <<"@", "B">> >>

-----------------------------------------------------------------------------
(* Java fact builder: parser.parseJava and parser.extractJavaMethods.      *)
(* All offsets here come from regexp matches and are used on the string    *)
(* they were found in, so rune offsets stand for the byte offsets of Go.   *)

\* strings.Contains(s, sub)
Contains(s, sub) == \E i \in 0..(Len(s) - Len(sub)) : HasLit(s, i, sub)

\* strings.ToLower on ASCII letters
LowerOf(ch) ==
    CASE ch = "A" -> "a" [] ch = "B" -> "b" [] ch = "C" -> "c" [] ch = "D" -> "d"
      [] ch = "E" -> "e" [] ch = "F" -> "f" [] ch = "G" -> "g" [] ch = "H" -> "h"
      [] ch = "I" -> "i" [] ch = "J" -> "j" [] ch = "K" -> "k" [] ch = "L" -> "l"
      [] ch = "M" -> "m" [] ch = "N" -> "n" [] ch = "O" -> "o" [] ch = "P" -> "p"
      [] ch = "Q" -> "q" [] ch = "R" -> "r" [] ch = "S" -> "s" [] ch = "T" -> "t"
      [] ch = "U" -> "u" [] ch = "V" -> "v" [] ch = "W" -> "w" [] ch = "X" -> "x"
      [] ch = "Y" -> "y" [] ch = "Z" -> "z" [] OTHER -> ch

ToLower(s) == [i \in 1..Len(s) |-> LowerOf(s[i])]

\* strings.Count(content[:pos], "\n") + 1
getLineNumber(s, pos) == Cardinality({k \in 1..pos : s[k] = "\n"}) + 1

\* (?m)^ at offset p
IsLineStart(s, p) == p = 0 \/ At(s, p - 1) = "\n"

VisibilityWords == { <<"p", "u", "b", "l", "i", "c">>,
                     <<"p", "r", "i", "v", "a", "t", "e">>,
                     <<"p", "r", "o", "t", "e", "c", "t", "e", "d">> }

ModifierWords == { <<"s", "t", "a", "t", "i", "c">>,
                   <<"f", "i", "n", "a", "l">>,
                   <<"a", "b", "s", "t", "r", "a", "c", "t">>,
                   <<"s", "y", "n", "c", "h", "r", "o", "n", "i", "z", "e", "d">> }

\* (?:<[^>]+>)? after a word that ends at e: the offset after the generic
\* part, e when there is none
GenericEnd(s, e) ==
    IF e < Len(s) /\ At(s, e) = "<"
    THEN LET g == IndexFrom(s, e + 1, ">")
         IN  IF g # -1 /\ g > e + 1 THEN g + 1 ELSE e
    ELSE e

\* The words of a declaration read from the word start q up to the word that
\* `\s*\(` follows: each item is <<word start, word end, end with generic>>.
\* Every word but the last must be followed by white space and another word
\* (the \s+ of the pattern); <<>> when the text is not of that shape.
RECURSIVE ReadChain(_, _, _)
ReadChain(s, q, items) ==
    LET e == SkipWord(s, q)
        a == SkipSpace(s, e)
        g == GenericEnd(s, e)
        n == SkipSpace(s, g)
    IN  IF e = q THEN <<>>
        ELSE IF a < Len(s) /\ At(s, a) = "("
             THEN Append(items, <<q, e, e>>)
             ELSE IF n > g /\ n < Len(s) /\ IsWord(At(s, n))
                  THEN ReadChain(s, n, Append(items, <<q, e, g>>))
                  ELSE <<>>

\* `\)\s*(?:throws\s+[^{]+)?\s*\{` from the offset q after ")": the offset
\* after the "{", -1 when it does not match
SignatureEnd(s, q) ==
    LET q3 == SkipSpace(s, q)
        b  == IndexFrom(s, q3 + 6, "{")
    IN  IF q3 < Len(s) /\ At(s, q3) = "{" THEN q3 + 1
        ELSE IF /\ HasLit(s, q3, <<"t", "h", "r", "o", "w", "s">>)
                /\ q3 + 6 < Len(s) /\ IsSpace(At(s, q3 + 6))
                /\ b # -1 /\ b >= q3 + 8
             THEN b + 1
             ELSE -1

NoMatch == [end |-> -1]

\* methodRegex matched at the line start p: the submatches, or NoMatch.
\* The words before the last two must be (public|private|protected)? followed
\* by (static|final|abstract|synchronized)*; group 2 keeps its last repetition.
MethodMatchAt(s, p) ==
    LET items == ReadChain(s, SkipSpace(s, p), <<>>)
        k     == Len(items)
        word(i) == Slice(s, items[i][1], items[i][2])
        open  == SkipSpace(s, items[k][2])
        close == IndexFrom(s, open + 1, ")")
        end   == SignatureEnd(s, close + 1)
    IN  IF /\ k >= 2
           /\ \A i \in 1..(k - 2) :
                 /\ items[i][3] = items[i][2]
                 /\ \/ word(i) \in ModifierWords
                    \/ i = 1 /\ word(i) \in VisibilityWords
           /\ items[k][3] = items[k][2]
           /\ close # -1
           /\ end # -1
        THEN [ start  |-> p,
               end    |-> end,
               group1 |-> IF k > 2 /\ word(1) \in VisibilityWords THEN word(1) ELSE <<>>,
               group2 |-> IF k > 2 /\ word(k - 2) \in ModifierWords THEN word(k - 2) ELSE <<>>,
               group3 |-> Slice(s, items[k - 1][1], items[k - 1][3]),
               group4 |-> word(k),
               group5 |-> Slice(s, open + 1, close) ]
        ELSE NoMatch

\* the JavaMethod built from one match (lines 182-218)
JavaMethodOf(s, m) ==
    [ Name        |-> m.group4,
      ReturnType  |-> m.group3,
      IsPublic    |-> m.group1 = <<"p", "u", "b", "l", "i", "c">>,
      IsPrivate   |-> m.group1 = <<"p", "r", "i", "v", "a", "t", "e">>,
      IsProtected |-> m.group1 = <<"p", "r", "o", "t", "e", "c", "t", "e", "d">>,
      IsStatic    |-> Contains(m.group2, <<"s", "t", "a", "t", "i", "c">>),
      Line        |-> getLineNumber(s, m.start),
      Column      |-> 0,
      Annotations |-> extractAnnotations(s, m.start) ]

\* methodRegex.FindAllStringSubmatch: the successive leftmost matches from p
\* the least line start at or after p, Len(s) when there is none
NextLineStart(s, p) ==
    IF p >= Len(s) \/ IsLineStart(s, p) THEN p
    ELSE IF IndexFrom(s, p, "\n") = -1 THEN Len(s)
    ELSE IndexFrom(s, p, "\n") + 1

RECURSIVE MethodsFrom(_, _)
MethodsFrom(s, p) ==
    LET q == NextLineStart(s, p)
    IN  IF q >= Len(s) THEN <<>>
        ELSE IF MethodMatchAt(s, q) # NoMatch
             THEN <<JavaMethodOf(s, MethodMatchAt(s, q))>>
                  \o MethodsFrom(s, MethodMatchAt(s, q).end)
             ELSE MethodsFrom(s, q + 1)

extractJavaMethods(s) == MethodsFrom(s, 0)

FieldModifierWords == { <<"s", "t", "a", "t", "i", "c">>, <<"f", "i", "n", "a", "l">> }

\* The words of a field declaration read from the word start q up to the
\* word that `\s*(?:=\s*[^;]+)?;` follows: each item is
\* <<word start, word end, end with generic>>; <<>> when the text is not of
\* that shape.
RECURSIVE ReadFieldChain(_, _, _)
ReadFieldChain(s, q, items) ==
    LET e == SkipWord(s, q)
        a == SkipSpace(s, e)
        g == GenericEnd(s, e)
        n == SkipSpace(s, g)
    IN  IF e = q THEN <<>>
        ELSE IF a < Len(s) /\ At(s, a) \in {";", "="}
             THEN Append(items, <<q, e, e>>)
             ELSE IF n > g /\ n < Len(s) /\ IsWord(At(s, n))
                  THEN ReadFieldChain(s, n, Append(items, <<q, e, g>>))
                  ELSE <<>>

\* `\s*(?:=\s*[^;]+)?;` from the offset e after the field name: the offset
\* after the ";", -1 when it does not match
FieldEnd(s, e) ==
    LET a == SkipSpace(s, e)
        f == IndexFrom(s, a + 1, ";")
    IN  IF a < Len(s) /\ At(s, a) = ";" THEN a + 1
        ELSE IF a < Len(s) /\ At(s, a) = "=" /\ f > a + 1 THEN f + 1
        ELSE -1

\* fieldRegex (line 230) matched at the line start p: the submatches, or
\* NoMatch.  The words before the last two must be
\* (public|private|protected)? followed by (static|final)*; group 2 keeps its
\* last repetition.
FieldMatchAt(s, p) ==
    LET items == ReadFieldChain(s, SkipSpace(s, p), <<>>)
        k     == Len(items)
        word(i) == Slice(s, items[i][1], items[i][2])
        end   == FieldEnd(s, items[k][2])
    IN  IF /\ k >= 2
           /\ \A i \in 1..(k - 2) :
                 /\ items[i][3] = items[i][2]
                 /\ \/ word(i) \in FieldModifierWords
                    \/ i = 1 /\ word(i) \in VisibilityWords
           /\ end # -1
        THEN [ start  |-> p,
               end    |-> end,
               group2 |-> IF k > 2 /\ word(k - 2) \in FieldModifierWords THEN word(k - 2) ELSE <<>>,
               group3 |-> Slice(s, items[k - 1][1], items[k - 1][3]),
               group4 |-> word(k) ]
        ELSE NoMatch

\* the JavaField built from one match (lines 237-255)
JavaFieldOf(s, m) ==
    [ Name        |-> m.group4,
      Type        |-> m.group3,
      IsStatic    |-> Contains(m.group2, <<"s", "t", "a", "t", "i", "c">>),
      IsFinal     |-> Contains(m.group2, <<"f", "i", "n", "a", "l">>),
      Line        |-> getLineNumber(s, m.start),
      Annotations |-> extractAnnotations(s, m.start) ]

\* fieldRegex.FindAllStringSubmatch: the successive leftmost matches from p
RECURSIVE FieldsFrom(_, _)
FieldsFrom(s, p) ==
    LET q == NextLineStart(s, p)
    IN  IF q >= Len(s) THEN <<>>
        ELSE IF FieldMatchAt(s, q) # NoMatch
             THEN <<JavaFieldOf(s, FieldMatchAt(s, q))>>
                  \o FieldsFrom(s, FieldMatchAt(s, q).end)
             ELSE FieldsFrom(s, q + 1)

extractJavaFields(s) == FieldsFrom(s, 0)

\* classRegex `(?:public\s+)?class\s+(\w+)`: submatch 1 of the leftmost match
ClassName(s) ==
    LET named(p) == /\ HasLit(s, p, <<"c", "l", "a", "s", "s">>)
                    /\ SkipSpace(s, p + 5) > p + 5
                    /\ SkipWord(s, SkipSpace(s, p + 5)) > SkipSpace(s, p + 5)
        starts == {p \in 0..(Len(s) - 1) : named(p)}
        w == SkipSpace(s, Min(starts) + 5)
    IN  IF starts = {} THEN <<>> ELSE Slice(s, w, SkipWord(s, w))

\* parseJava: the class annotations are collected before offset 0 (line 159).
\* Package and Imports are not read by the rules modelled here.
parseJava(s) ==
    [ Name        |-> ClassName(s),
      Annotations |-> extractAnnotations(s, 0),
      Methods     |-> extractJavaMethods(s),
      Fields      |-> extractJavaFields(s) ]

-----------------------------------------------------------------------------
(* TransactionalRule (java_rules.go:29-272). A method body is the rune     *)
(* sequence extractMethodBody returned; the regular expressions only count *)
(* or test matches, so the offset unit plays no part here.                 *)

\* the rune at offset i is ch
IsAt(s, i, ch) == i >= 0 /\ i < Len(s) /\ At(s, i) = ch

\* `\.\w+\(` matched at the offset d of the "."
CallAfterDot(s, d) ==
    /\ IsAt(s, d, ".")
    /\ SkipWord(s, d + 1) > d + 1
    /\ IsAt(s, SkipWord(s, d + 1), "(")

\* len(FindAllString(body, `\w+` + suffix + `\.\w+\(`)): every match holds
\* exactly one ".", so the matches are the occurrences of suffix + "." that
\* follow a word rune and are followed by a call
CountTypedCalls(s, suffix) ==
    Cardinality({p \in 1..(Len(s) - 1) :
                    /\ HasLit(s, p, suffix)
                    /\ IsWord(At(s, p - 1))
                    /\ CallAfterDot(s, p + Len(suffix))})

\* repositoryPatterns (lines 119-129)
repositoryCalls(s) ==
    CountTypedCalls(s, <<"R", "e", "p", "o", "s", "i", "t", "o", "r", "y">>)
    + CountTypedCalls(s, <<"D", "A", "O">>)
    + CountTypedCalls(s, <<"M", "a", "p", "p", "e", "r">>)

\* the operation words of lines 188 and 195
operations == << <<"s", "a", "v", "e">>, <<"u", "p", "d", "a", "t", "e">>, <<"d", "e", "l", "e", "t", "e">>, <<"i", "n", "s", "e", "r", "t">>, <<"r", "e", "m", "o", "v", "e">> >>

\* ifPattern (line 188):
\* `if\s*\([^)]+\)\s*\{[^}]*(?:save|update|delete|insert|remove)\([^}]*\}`
hasConditionalDataOperations(s) ==
    \E p \in 0..(Len(s) - 1) :
        /\ HasLit(s, p, <<"i", "f">>)
        /\ LET open  == SkipSpace(s, p + 2)
               close == IndexFrom(s, open + 1, ")")
               brace == SkipSpace(s, close + 1)
               end   == IndexFrom(s, brace + 1, "}")
           IN  /\ IsAt(s, open, "(")
               /\ close > open + 1
               /\ IsAt(s, brace, "{")
               /\ end # -1
               /\ \E k \in (brace + 1)..(end - 1) : \E o \in 1..Len(operations) :
                      /\ HasLit(s, k, operations[o])
                      /\ k + Len(operations[o]) < end
                      /\ IsAt(s, k + Len(operations[o]), "(")

\* (?i) `\w*` + op + `\w*\(` matches somewhere in s
MatchesOperation(s, op) ==
    \E k \in 0..(Len(s) - 1) :
        /\ HasLit(ToLower(s), k, op)
        /\ IsAt(s, SkipWord(s, k + Len(op)), "(")

\* lines 194-208: two or more of the operation words are found
hasMultipleDataOperations(s) ==
    Cardinality({o \in 1..Len(operations) : MatchesOperation(s, operations[o])}) >= 2

\* (?i) prefix + `\.\w+\(`, prefix a literal
MatchesLiteralCall(s, prefix) ==
    \E k \in 0..(Len(s) - 1) :
        HasLit(ToLower(s), k, prefix) /\ CallAfterDot(s, k + Len(prefix))

\* (?i) prefix + `\w*\.\w+\(`
MatchesPrefixedCall(s, prefix) ==
    \E k \in 0..(Len(s) - 1) :
        HasLit(ToLower(s), k, prefix) /\ CallAfterDot(s, SkipWord(s, k + Len(prefix)))

\* (?i) `\w*Service\.\w+\(.*http`: "." does not match a line break
MatchesServiceHttp(s) ==
    \E k \in 0..(Len(s) - 1) :
        /\ HasLit(ToLower(s), k, <<"s", "e", "r", "v", "i", "c", "e">>)
        /\ CallAfterDot(s, k + 7)
        /\ LET open == SkipWord(s, k + 8)
               eol  == IF IndexFrom(s, open, "\n") = -1 THEN Len(s)
                       ELSE IndexFrom(s, open, "\n")
           IN  \E h \in (open + 1)..(eol - 4) : HasLit(ToLower(s), h, <<"h", "t", "t", "p">>)

\* externalPatterns (lines 212-220), all matched with (?i)
hasExternalSystemCalls(s) ==
    \/ MatchesLiteralCall(s, <<"r", "e", "s", "t", "t", "e", "m", "p", "l", "a", "t", "e">>)
    \/ MatchesLiteralCall(s, <<"w", "e", "b", "c", "l", "i", "e", "n", "t">>)
    \/ MatchesLiteralCall(s, <<"c", "l", "i", "e", "n", "t">>)
    \/ MatchesServiceHttp(s)
    \/ Contains(ToLower(s), <<"@", "f", "e", "i", "g", "n", "c", "l", "i", "e", "n", "t">>)
    \/ MatchesPrefixedCall(s, <<"k", "a", "f", "k", "a">>)
    \/ MatchesPrefixedCall(s, <<"j", "m", "s">>)

\* fmt.Sprintf("%d", n)
RECURSIVE Itoa(_)
Itoa(n) ==
    LET digit == << "0", "1", "2", "3", "4", "5", "6", "7", "8", "9" >>
    IN  IF n < 10 THEN <<digit[n + 1]>> ELSE Itoa(n \div 10) \o <<digit[(n % 10) + 1]>>

\* strings.Join(parts, sep)
RECURSIVE Join(_, _)
Join(parts, sep) ==
    IF parts = <<>> THEN <<>>
    ELSE IF Len(parts) = 1 THEN parts[1]
    ELSE parts[1] \o sep \o Join(Tail(parts), sep)

\* The four reasons of determineTransactionNeed. The source writes them in
\* Korean (lines 238, 243, 248, 253); they are rendered here in English.
ReasonRepositoryCalls(n) ==
    <<"m", "u", "l", "t", "i", "-", "t", "a", "b", "l", "e", " ", "w", "o", "r", "k", "(">> \o Itoa(n) \o <<" ", "R", "e", "p", "o", "s", "i", "t", "o", "r", "y", " ", "c", "a", "l", "l", "s", ")">>
ReasonConditional == <<"c", "o", "n", "d", "i", "t", "i", "o", "n", "a", "l", " ", "d", "a", "t", "a", " ", "c", "h", "a", "n", "g", "e", " ", "l", "o", "g", "i", "c">>
ReasonMultipleOperations == <<"c", "o", "m", "p", "o", "u", "n", "d", " ", "d", "a", "t", "a", " ", "w", "o", "r", "k", "(", "c", "r", "e", "a", "t", "e", "/", "u", "p", "d", "a", "t", "e", "/", "d", "e", "l", "e", "t", "e", ")">>
ReasonExternal == <<"e", "x", "t", "e", "r", "n", "a", "l", " ", "s", "y", "s", "t", "e", "m", " ", "i", "n", "t", "e", "g", "r", "a", "t", "i", "o", "n", " ", "w", "i", "t", "h", " ", "D", "B", " ", "w", "o", "r", "k">>

\* determineTransactionNeed with the repository-call signal firing from one
\* call on
determineTransactionNeedOneCall(complexity) ==
    LET reasons ==
            (IF complexity.repositoryCalls >= 1
             THEN <<ReasonRepositoryCalls(complexity.repositoryCalls)>> ELSE <<>>)
            \o (IF complexity.conditionalLogic THEN <<ReasonConditional>> ELSE <<>>)
            \o (IF complexity.multipleOperations
                THEN <<ReasonMultipleOperations>> ELSE <<>>)
            \o (IF complexity.externalCalls /\ complexity.repositoryCalls > 0
                THEN <<ReasonExternal>> ELSE <<>>)
    IN  <<Len(reasons) > 0, Join(reasons, <<",", " ">>)>>

\* determineTransactionNeed that reports the first reason only
determineTransactionNeedFirstReason(complexity) ==
    LET reasons ==
            (IF complexity.repositoryCalls >= 2
             THEN <<ReasonRepositoryCalls(complexity.repositoryCalls)>> ELSE <<>>)
            \o (IF complexity.conditionalLogic THEN <<ReasonConditional>> ELSE <<>>)
            \o (IF complexity.multipleOperations
                THEN <<ReasonMultipleOperations>> ELSE <<>>)
            \o (IF complexity.externalCalls /\ complexity.repositoryCalls > 0
                THEN <<ReasonExternal>> ELSE <<>>)
    IN  <<Len(reasons) > 0, IF reasons = <<>> THEN <<>> ELSE reasons[1]>>

\* lines 233-260: <<requiresTransaction, reason>>
determineTransactionNeed(complexity) ==
    LET reasons ==
            (IF complexity.repositoryCalls >= 2
             THEN <<ReasonRepositoryCalls(complexity.repositoryCalls)>> ELSE <<>>)
            \o (IF complexity.conditionalLogic THEN <<ReasonConditional>> ELSE <<>>)
            \o (IF complexity.multipleOperations
                THEN <<ReasonMultipleOperations>> ELSE <<>>)
            \o (IF complexity.externalCalls /\ complexity.repositoryCalls > 0
                THEN <<ReasonExternal>> ELSE <<>>)
    IN  <<Len(reasons) > 0, Join(reasons, <<",", " ">>)>>

\* lines 110-150, for the body that extractMethodBody returned
analyzeMethodComplexity(body) ==
    LET signals == [ repositoryCalls    |-> repositoryCalls(body),
                     conditionalLogic   |-> hasConditionalDataOperations(body),
                     multipleOperations |-> hasMultipleDataOperations(body),
                     externalCalls      |-> hasExternalSystemCalls(body) ]
        need == determineTransactionNeed(signals)
    IN  [ requiresTransaction |-> need[1],
          reason              |-> need[2],
          repositoryCalls     |-> signals.repositoryCalls,
          conditionalLogic    |-> signals.conditionalLogic,
          multipleOperations  |-> signals.multipleOperations,
          externalCalls       |-> signals.externalCalls ]

\* lines 76-88
dataChangePatterns == { <<"i", "n", "s", "e", "r", "t">>, <<"u", "p", "d", "a", "t", "e">>, <<"d", "e", "l", "e", "t", "e">>, <<"s", "a", "v", "e">>, <<"m", "o", "d", "i", "f", "y">>,
                        <<"r", "e", "m", "o", "v", "e">>, <<"c", "r", "e", "a", "t", "e">>, <<"a", "d", "d">>, <<"s", "e", "t">> }

isDataChangeMethod(methodName) ==
    \E pattern \in dataChangePatterns : Contains(ToLower(methodName), pattern)

\* lines 90-97
hasTransactionalAnnotation(anns) ==
    \E i \in 1..Len(anns) : Contains(anns[i], <<"@", "T", "r", "a", "n", "s", "a", "c", "t", "i", "o", "n", "a", "l">>)

\* lines 262-265; the Korean format string reads
\* "method '%s' needs @Transactional: %s"
generateTransactionalMessage(methodName, complexity) ==
    <<"m", "e", "t", "h", "o", "d", " ", "'">> \o methodName \o <<"'", " ", "n", "e", "e", "d", "s", " ", "@", "T", "r", "a", "n", "s", "a", "c", "t", "i", "o", "n", "a", "l", ":", " ">> \o complexity.reason

\* ParsedFile.Lines: ParseFile splits the content at every "\n"
\* (part_000:84), so a content that ends with "\n" has an empty last line
FileLines(s) == SplitLines(s)

\* lines 267-272
getCodeSnippet(ls, line) ==
    IF line <= 0 \/ line > Len(ls) THEN <<>>
    ELSE TrimSpace(ls[line])

TransactionalRuleID == "java-transactional-missing"

\* the findings of the methods from index i on (the loop of lines 53-71)
RECURSIVE TransactionalIssuesFrom(_, _, _)
TransactionalIssuesFrom(s, methods, i) ==
    IF i > Len(methods) THEN <<>>
    ELSE LET method     == methods[i]
             complexity == analyzeMethodComplexity(extractMethodBody(s, method.Name))
             found ==
                 IF /\ isDataChangeMethod(method.Name)
                    /\ ~hasTransactionalAnnotation(method.Annotations)
                    /\ complexity.requiresTransaction
                 THEN << [ RuleID      |-> TransactionalRuleID,
                           Line        |-> method.Line,
                           Column      |-> method.Column,
                           Message     |-> generateTransactionalMessage(method.Name, complexity),
                           CodeSnippet |-> getCodeSnippet(FileLines(s), method.Line) ] >>
                 ELSE <<>>
         IN  found \o TransactionalIssuesFrom(s, methods, i + 1)

\* lines 36-47
hasServiceAnnotation(class) ==
    \E i \in 1..Len(class.Annotations) : Contains(class.Annotations[i], <<"@", "S", "e", "r", "v", "i", "c", "e">>)

\* the slice expression of extractMethodBody panics for a method Check analyses
TransactionalPanics(s, class) ==
    /\ hasServiceAnnotation(class)
    /\ \E i \in 1..Len(class.Methods) :
           /\ isDataChangeMethod(class.Methods[i].Name)
           /\ ~hasTransactionalAnnotation(class.Methods[i].Annotations)
           /\ extractMethodBody(s, class.Methods[i].Name) = Panic

\* TransactionalRule.Check without the return of lines 45-47
TransactionalCheckAnyClass(s, class) == TransactionalIssuesFrom(s, class.Methods, 1)

\* TransactionalRule.Check (lines 29-74) on a file with Content s and AST class
TransactionalCheck(s, class) ==
    IF ~hasServiceAnnotation(class) THEN <<>>
    ELSE TransactionalIssuesFrom(s, class.Methods, 1)

-----------------------------------------------------------------------------
(* Specification SpecTx: a Java file is written as a class header, one     *)
(* method signature, up to MaxStmts statements and the closing braces; it  *)
(* is parsed (or its facts are filled in by the caller), and then          *)
(* TransactionalRule.Check runs on it.                                     *)

MaxStmts == 2

\* "public class S {\n"
HeaderPlain == << "p", "u", "b", "l", "i", "c", " ", "c", "l", "a", "s", "s", " ",
                  "S", " ", "{", "\n" >>

\* "package p;\n@Service\npublic class S {\n"
HeaderService == << "p", "a", "c", "k", "a", "g", "e", " ", "p", ";", "\n", "@",
                    "S", "e", "r", "v", "i", "c", "e", "\n", "p", "u", "b", "l",
                    "i", "c", " ", "c", "l", "a", "s", "s", " ", "S", " ", "{",
                    "\n" >>

\* "// \ud55c\n@Service\n@Lazy\nclass S {\n"
HeaderServiceLazy == << "/", "/", " ", "U+D55C", "\n", "@", "S", "e", "r", "v",
                        "i", "c", "e", "\n", "@", "L", "a", "z", "y", "\n", "c",
                        "l", "a", "s", "s", " ", "S", " ", "{", "\n" >>

\* " public void save(User u) {\n"
SigSave == << " ", "p", "u", "b", "l", "i", "c", " ", "v", "o", "i", "d", " ", "s",
              "a", "v", "e", "(", "U", "s", "e", "r", " ", "u", ")", " ", "{",
              "\n" >>

\* " public void createAndNotify(User u) {\n"
SigCreateAndNotify == << " ", "p", "u", "b", "l", "i", "c", " ", "v", "o", "i",
                         "d", " ", "c", "r", "e", "a", "t", "e", "A", "n", "d",
                         "N", "o", "t", "i", "f", "y", "(", "U", "s", "e", "r",
                         " ", "u", ")", " ", "{", "\n" >>

\* " public User find(User u) {\n"
SigFind == << " ", "p", "u", "b", "l", "i", "c", " ", "U", "s", "e", "r", " ", "f",
              "i", "n", "d", "(", "U", "s", "e", "r", " ", "u", ")", " ", "{",
              "\n" >>

\* " @Transactional\n public void save(User u) {\n"
SigSaveTransactional == << " ", "@", "T", "r", "a", "n", "s", "a", "c", "t", "i",
                           "o", "n", "a", "l", "\n", " ", "p", "u", "b", "l", "i",
                           "c", " ", "v", "o", "i", "d", " ", "s", "a", "v", "e",
                           "(", "U", "s", "e", "r", " ", "u", ")", " ", "{", "\n" >>

\* " public void add(User u) {\n  aRepository.save(u);\n  bMapper.delete(u);\n }\n"
\* followed by " public void save(User u) {\n": a first method that is
\* complete, and a second one that takes the statements
SigAddThenSave ==
    << " ", "p", "u", "b", "l", "i", "c", " ", "v", "o", "i", "d", " ", "a",
      "d", "d", "(", "U", "s", "e", "r", " ", "u", ")", " ", "{", "\n",
      " ", " ", "a", "R", "e", "p", "o", "s", "i", "t", "o", "r", "y", ".",
      "s", "a", "v", "e", "(", "u", ")", ";", "\n", " ", " ", "b", "M",
      "a", "p", "p", "e", "r", ".", "d", "e", "l", "e", "t", "e", "(", "u",
      ")", ";", "\n", " ", "}", "\n", " ", "p", "u", "b", "l", "i", "c",
      " ", "v", "o", "i", "d", " ", "s", "a", "v", "e", "(", "U", "s", "e",
      "r", " ", "u", ")", " ", "{", "\n" >>

\* "  aRepository.save(u);\n"
StmtRepositorySave == << " ", " ", "a", "R", "e", "p", "o", "s", "i", "t", "o",
                         "r", "y", ".", "s", "a", "v", "e", "(", "u", ")", ";",
                         "\n" >>

\* "  bMapper.delete(u);\n"
StmtMapperDelete == << " ", " ", "b", "M", "a", "p", "p", "e", "r", ".", "d", "e",
                       "l", "e", "t", "e", "(", "u", ")", ";", "\n" >>

\* "  mailClient.send(u);\n"
StmtClientSend == << " ", " ", "m", "a", "i", "l", "C", "l", "i", "e", "n", "t",
                     ".", "s", "e", "n", "d", "(", "u", ")", ";", "\n" >>

\* "  if (u != null) { aDAO.save(u); }\n"
StmtIfSave == << " ", " ", "i", "f", " ", "(", "u", " ", "!", "=", " ", "n", "u",
                 "l", "l", ")", " ", "{", " ", "a", "D", "A", "O", ".", "s", "a",
                 "v", "e", "(", "u", ")", ";", " ", "}", "\n" >>

\* "  log(u);\n"
StmtLog == << " ", " ", "l", "o", "g", "(", "u", ")", ";", "\n" >>

\* " }\n}\n"
FileEnd == << " ", "}", "\n", "}", "\n" >>

Headers == {HeaderPlain, HeaderService, HeaderServiceLazy}

Signatures == {SigSave, SigCreateAndNotify, SigFind, SigSaveTransactional, SigAddThenSave}

Statements == {StmtRepositorySave, StmtMapperDelete, StmtClientSend, StmtIfSave, StmtLog}

\* The annotation lines that stand directly above the class declaration, top
\* to bottom: JavaClass.Annotations as a caller that fills the exported
\* struct by hand sets it.
ClassAnnotationLines(s) ==
    LET lines == SplitLines(s)
        decl  == Min({i \in 1..Len(lines) : Contains(lines[i], <<"c", "l", "a", "s", "s", " ">>)})
        first == Min({j \in 1..decl :
                        \A k \in j..(decl - 1) : HasPrefix(TrimSpace(lines[k]), <<"@">>)})
    IN  [k \in 1..(decl - first) |-> TrimSpace(lines[first + k - 1])]

InitTx ==
    /\ pc = "write"
    /\ \E header \in Headers, signature \in Signatures : content = header \o signature
    /\ typed = 0
    /\ IdleBody /\ IdleAnn /\ IdleRule /\ IdleDup /\ IdleCfg /\ IdleRun

AddStatement(statement) ==
    /\ pc = "write"
    /\ typed < MaxStmts
    /\ content' = content \o statement
    /\ typed' = typed + 1
    /\ UNCHANGED <<pc, bodyVars, annVars, ruleVars, dupVars, cfgVars, runVars>>

CloseFile ==
    /\ pc = "write"
    /\ pc' = "closed"
    /\ content' = content \o FileEnd
    /\ UNCHANGED <<typed, bodyVars, annVars, ruleVars, dupVars, cfgVars, runVars>>

\* parser.ParseFile for a .java file: AST is what parseJava returns
ParseFile ==
    /\ pc = "closed"
    /\ pc' = "parsed"
    /\ astOrigin' = "ParseFile"
    /\ javaClass' = parseJava(content)
    /\ fileLines' = FileLines(content)
    /\ UNCHANGED <<content, typed, issues, bodyVars, annVars, dupVars, cfgVars, runVars, jsFunctions>>

\* a caller builds the ParsedFile itself and sets the class annotations
BuildParsedFile ==
    /\ pc = "closed"
    /\ pc' = "parsed"
    /\ astOrigin' = "literal"
    /\ javaClass' = [parseJava(content) EXCEPT !.Annotations = ClassAnnotationLines(content)]
    /\ fileLines' = FileLines(content)
    /\ UNCHANGED <<content, typed, issues, bodyVars, annVars, dupVars, cfgVars, runVars, jsFunctions>>

\* TransactionalRule.Check(file)
CheckTransactional ==
    /\ pc = "parsed"
    /\ IF TransactionalPanics(content, javaClass)
       THEN pc' = "panicked" /\ UNCHANGED issues
       ELSE pc' = "checked" /\ issues' = TransactionalCheck(content, javaClass)
    /\ UNCHANGED <<content, typed, astOrigin, javaClass, jsFunctions, fileLines, bodyVars, annVars, dupVars, cfgVars, runVars>>

NextTx ==
    \/ \E statement \in Statements : AddStatement(statement)
    \/ CloseFile
    \/ ParseFile
    \/ BuildParsedFile
    \/ CheckTransactional

SpecTx == InitTx /\ [][NextTx]_vars

\* the concatenation of a sequence of texts
RECURSIVE Concat(_)
Concat(texts) == IF texts = <<>> THEN <<>> ELSE texts[1] \o Concat(Tail(texts))

\* the bodies of up to MaxStmts statements
Bodies == UNION {[1..n -> Statements] : n \in 0..MaxStmts}

\* C10: when annotation lines stand directly above the class declaration,
\* parseJava returns exactly those lines, top to bottom, as the class's
\* Annotations.
C10_ClassAnnotations ==
    (pc = "parsed" /\ astOrigin = "ParseFile" /\ ClassAnnotationLines(content) # <<>>)
        => javaClass.Annotations = ClassAnnotationLines(content)

\* the files of claim C7: a @Service class whose only method is
\* createAndNotify(User u), without @Transactional, with one repository call
\* and one external-client call in its body
CreateAndNotifyFiles ==
    { header \o SigCreateAndNotify \o Concat(body) \o FileEnd :
        header \in {HeaderService, HeaderServiceLazy},
        body \in { b \in [1..2 -> Statements] :
                     \E i \in 1..2 : /\ b[i] \in {StmtRepositorySave, StmtMapperDelete}
                                     /\ b[3 - i] = StmtClientSend } }

\* C7: parsing such a file and running TransactionalRule.Check on it yields
\* exactly one finding, whose message holds the reason for an external
\* system used together with a repository call.
C7_ExternalCallFinding ==
    (pc = "checked" /\ astOrigin = "ParseFile" /\ content \in CreateAndNotifyFiles)
        => /\ Len(issues) = 1
           /\ issues[1].RuleID = TransactionalRuleID
           /\ Contains(issues[1].Message, ReasonExternal)

\* the files of claim C8: a @Service class with the method save(User u),
\* without @Transactional, whose body has exactly one repository call and
\* otherwise only statements that are no condition, no mutation and no
\* external call
SingleCallSaveFiles ==
    { header \o SigSave \o Concat(body) \o FileEnd :
        header \in {HeaderService, HeaderServiceLazy},
        body \in { b \in Bodies :
                     /\ Cardinality({i \in DOMAIN b :
                            b[i] \in {StmtRepositorySave, StmtMapperDelete}}) = 1
                     /\ \A i \in DOMAIN b :
                            b[i] \in {StmtRepositorySave, StmtMapperDelete, StmtLog} } }

\* C8: TransactionalRule.Check yields no finding for the method save of such
\* a file: the check completes and no message names the method.
C8_SingleCallNoFinding ==
    content \in SingleCallSaveFiles
        => /\ pc # "panicked"
           /\ pc = "checked" =>
                \A i \in 1..Len(issues) :
                    ~Contains(issues[i].Message, <<"m", "e", "t", "h", "o", "d", " ", "'", "s", "a", "v", "e", "'">>)

C8_Witness ==
    /\ pc = "checked"
    /\ astOrigin = "literal"
    /\ content = HeaderService \o SigSave \o StmtLog \o StmtRepositorySave \o FileEnd
    /\ hasServiceAnnotation(javaClass)
    /\ Len(javaClass.Methods) = 1
    /\ analyzeMethodComplexity(extractMethodBody(content, <<"s", "a", "v", "e">>)).repositoryCalls = 1
    /\ issues = <<>>

-----------------------------------------------------------------------------
(* CyclomaticComplexityRule (java_rules.go:814-916)                        *)

\* \b at offset p: exactly one of the runes before and at p is a word rune
WordBoundary(s, p) ==
    (p > 0 /\ p <= Len(s) /\ IsWord(At(s, p - 1))) # (p < Len(s) /\ IsWord(At(s, p)))

\* len(FindAllString(s, `\b` + keyword + `\s*` + open)), open one rune
CountKeywordOpen(s, keyword, open) ==
    Cardinality({p \in 0..(Len(s) - 1) :
                    /\ WordBoundary(s, p)
                    /\ HasLit(s, p, keyword)
                    /\ IsAt(s, SkipSpace(s, p + Len(keyword)), open)})

\* `\belse\s+if\s*\(`
CountElseIf(s) ==
    Cardinality({p \in 0..(Len(s) - 1) :
                    /\ WordBoundary(s, p)
                    /\ HasLit(s, p, <<"e", "l", "s", "e">>)
                    /\ SkipSpace(s, p + 4) > p + 4
                    /\ HasLit(s, SkipSpace(s, p + 4), <<"i", "f">>)
                    /\ IsAt(s, SkipSpace(s, SkipSpace(s, p + 4) + 2), "(")})

\* `\belse\b`
CountElse(s) ==
    Cardinality({p \in 0..(Len(s) - 1) :
                    WordBoundary(s, p) /\ HasLit(s, p, <<"e", "l", "s", "e">>) /\ WordBoundary(s, p + 4)})

\* `\bcase\s+`
CountCase(s) ==
    Cardinality({p \in 0..(Len(s) - 1) :
                    /\ WordBoundary(s, p)
                    /\ HasLit(s, p, <<"c", "a", "s", "e">>)
                    /\ SkipSpace(s, p + 4) > p + 4})

\* `\?\s*[^:]+\s*:` from offset from on: a match starts at a "?" whose next
\* ":" comes after at least one other rune and ends at that ":"; the search
\* goes on after the match
RECURSIVE CountTernary(_, _)
CountTernary(s, from) ==
    LET q == IndexFrom(s, from, "?")
        c == IndexFrom(s, q + 1, ":")
    IN  IF q = -1 THEN 0
        ELSE IF c = -1 THEN 0
        ELSE IF c = q + 1 THEN CountTernary(s, q + 1)
        ELSE 1 + CountTernary(s, c + 1)

\* len(FindAllString(s, ch ch)) for `\&\&` and `\|\|`: the matches do not
\* overlap, so in a run of ch a match starts at every second rune
CountPairs(s, ch) ==
    LET runStart(p) == Min({j \in 0..p : \A k \in j..p : At(s, k) = ch})
    IN  Cardinality({p \in 0..(Len(s) - 2) :
                        /\ HasLit(s, p, <<ch, ch>>)
                        /\ (p - runStart(p)) % 2 = 0})

\* the sum over branchPatterns (lines 854-873) of the number of matches
CountBranches(s) ==
    CountKeywordOpen(s, <<"i", "f">>, "(")
    + CountElseIf(s)
    + CountElse(s)
    + CountKeywordOpen(s, <<"w", "h", "i", "l", "e">>, "(")
    + CountKeywordOpen(s, <<"f", "o", "r">>, "(")
    + CountKeywordOpen(s, <<"d", "o">>, "{")
    + CountKeywordOpen(s, <<"s", "w", "i", "t", "c", "h">>, "(")
    + CountCase(s)
    + CountKeywordOpen(s, <<"c", "a", "t", "c", "h">>, "(")
    + CountTernary(s, 0)
    + CountPairs(s, "&")
    + CountPairs(s, "|")

\* calculateComplexity (lines 844-876) of the method called name in the file
\* text s; the method body must not be Panic
calculateComplexity(s, name) ==
    IF extractMethodBody(s, name) = <<>> THEN 1
    ELSE 1 + CountBranches(extractMethodBody(s, name))

\* line 825
ComplexityThreshold == 10

ComplexityRuleID == "java-cyclomatic-complexity"

\* line 832; the Korean format string reads
\* "method '%s' has too high a cyclomatic complexity (complexity: %d)"
ComplexityMessage(methodName, value) ==
    <<"m", "e", "t", "h", "o", "d", " ", "'">> \o methodName \o <<"'", " ", "h", "a", "s", " ", "t", "o", "o", " ", "h", "i", "g", "h", " ", "a", " ", "c", "y", "c", "l", "o", "m", "a", "t", "i", "c", " ", "c", "o", "m", "p", "l", "e", "x", "i", "t", "y", " ", "(", "c", "o", "m", "p", "l", "e", "x", "i", "t", "y", ":", " ">>
        \o Itoa(value) \o <<")">>

\* the findings of the methods from index i on (the loop of lines 822-839)
RECURSIVE ComplexityIssuesFrom(_, _, _)
ComplexityIssuesFrom(s, methods, i) ==
    IF i > Len(methods) THEN <<>>
    ELSE LET method == methods[i]
             value  == calculateComplexity(s, method.Name)
             found  ==
                 IF value > ComplexityThreshold
                 THEN << [ RuleID      |-> ComplexityRuleID,
                           Line        |-> method.Line,
                           Column      |-> method.Column,
                           Message     |-> ComplexityMessage(method.Name, value),
                           CodeSnippet |-> getCodeSnippet(FileLines(s), method.Line) ] >>
                 ELSE <<>>
         IN  found \o ComplexityIssuesFrom(s, methods, i + 1)

\* the slice expression of extractMethodBody panics for some method
ComplexityPanics(s, class) ==
    \E i \in 1..Len(class.Methods) : extractMethodBody(s, class.Methods[i].Name) = Panic

\* CyclomaticComplexityRule.Check (lines 814-842)
ComplexityCheck(s, class) == ComplexityIssuesFrom(s, class.Methods, 1)

-----------------------------------------------------------------------------
(* Specification SpecComplexity: a class with the method run is written,   *)
(* its body an optional plain statement followed by if statements; the     *)
(* file is parsed and CyclomaticComplexityRule.Check runs on it.           *)

MaxIfs == 12

\* "public class S {\n // \ud55c\ud55c\ud55c\n"
HeaderKorean == << "p", "u", "b", "l", "i", "c", " ", "c", "l", "a", "s", "s", " ",
                   "S", " ", "{", "\n", " ", "/", "/", " ", "U+D55C", "U+D55C",
                   "U+D55C", "\n" >>

\* " void run() {\n"
SigRun == << " ", "v", "o", "i", "d", " ", "r", "u", "n", "(", ")", " ", "{",
             "\n" >>

\* "  if (a) b();\n"
StmtIf == << " ", " ", "i", "f", " ", "(", "a", ")", " ", "b", "(", ")", ";",
             "\n" >>

ComplexityHeaders == {HeaderPlain, HeaderKorean}

InitComplexity ==
    /\ pc = "write"
    /\ \E header \in ComplexityHeaders : content = header \o SigRun
    /\ typed = 0
    /\ IdleBody /\ IdleAnn /\ IdleRule /\ IdleDup /\ IdleCfg /\ IdleRun

\* one more statement: a plain call may open the body, the rest are ifs
AddBranchStatement(statement) ==
    /\ pc = "write"
    /\ typed < MaxIfs + 1
    /\ statement = StmtIf \/ typed = 0
    /\ Len(content) + Len(statement) <= Len(HeaderKorean \o SigRun \o StmtLog) + MaxIfs * Len(StmtIf)
    /\ content' = content \o statement
    /\ typed' = typed + 1
    /\ UNCHANGED <<pc, bodyVars, annVars, ruleVars, dupVars, cfgVars, runVars>>

\* CyclomaticComplexityRule.Check(file)
CheckComplexity ==
    /\ pc = "parsed"
    /\ IF ComplexityPanics(content, javaClass)
       THEN pc' = "panicked" /\ UNCHANGED issues
       ELSE pc' = "checked" /\ issues' = ComplexityCheck(content, javaClass)
    /\ UNCHANGED <<content, typed, astOrigin, javaClass, jsFunctions, fileLines, bodyVars, annVars, dupVars, cfgVars, runVars>>

NextComplexity ==
    \/ \E statement \in {StmtIf, StmtLog} : AddBranchStatement(statement)
    \/ CloseFile
    \/ ParseFile
    \/ CheckComplexity

SpecComplexity == InitComplexity /\ [][NextComplexity]_vars

\* n copies of a text
Repeat(text, n) == [i \in 1..(n * Len(text)) |-> text[((i - 1) % Len(text)) + 1]]

\* the files whose method run has exactly 11 independent if statements and
\* no other branch construct
ElevenIfFiles ==
    { header \o SigRun \o lead \o Repeat(StmtIf, 11) \o FileEnd :
        header \in ComplexityHeaders, lead \in {<<>>, StmtLog} }

\* C3: the rule emits exactly one finding for the method iff its computed
\* complexity is greater than 10, and the message reports the computed
\* value; a method with exactly 11 independent if statements and no other
\* branch construct has complexity 12 and yields one finding reporting 12.
C3_ComplexityFinding ==
    /\ pc # "panicked"
    /\ pc = "checked" =>
         /\ Len(issues) <= 1
         /\ Len(issues) = 1 <=> calculateComplexity(content, <<"r", "u", "n">>) > 10
         /\ Len(issues) = 1 =>
                Contains(issues[1].Message,
                         <<"(", "c", "o", "m", "p", "l", "e", "x", "i", "t", "y", ":", " ">> \o Itoa(calculateComplexity(content, <<"r", "u", "n">>)) \o <<")">>)
         /\ content \in ElevenIfFiles =>
                /\ Len(issues) = 1
                /\ Contains(issues[1].Message, <<"(", "c", "o", "m", "p", "l", "e", "x", "i", "t", "y", ":", " ", "1", "2", ")">>)

-----------------------------------------------------------------------------
(* Specification SpecBranch: the method run of a class is written with up  *)
(* to MaxBranchStmts statements and measured with calculateComplexity;     *)
(* then one branch construct is inserted as a statement of its own at a    *)
(* statement boundary of the body and the method is measured again.        *)

MaxBranchStmts == 2

\* "  if (a) { }\n"
ConstructIf == << " ", " ", "i", "f", " ", "(", "a", ")", " ", "{", " ", "}",
                  "\n" >>

\* "  else if (a) { }\n"
ConstructElseIf == << " ", " ", "e", "l", "s", "e", " ", "i", "f", " ", "(", "a",
                      ")", " ", "{", " ", "}", "\n" >>

\* "  else { }\n"
ConstructElse == << " ", " ", "e", "l", "s", "e", " ", "{", " ", "}", "\n" >>

\* "  while (a) { }\n"
ConstructWhile == << " ", " ", "w", "h", "i", "l", "e", " ", "(", "a", ")", " ",
                     "{", " ", "}", "\n" >>

\* "  for (;;) { }\n"
ConstructFor == << " ", " ", "f", "o", "r", " ", "(", ";", ";", ")", " ", "{", " ",
                   "}", "\n" >>

\* "  do { } while (a);\n"
ConstructDo == << " ", " ", "d", "o", " ", "{", " ", "}", " ", "w", "h", "i", "l",
                  "e", " ", "(", "a", ")", ";", "\n" >>

\* "  switch (a) { }\n"
ConstructSwitch == << " ", " ", "s", "w", "i", "t", "c", "h", " ", "(", "a", ")",
                      " ", "{", " ", "}", "\n" >>

\* "  case 1: b();\n"
ConstructCase == << " ", " ", "c", "a", "s", "e", " ", "1", ":", " ", "b", "(",
                    ")", ";", "\n" >>

\* "  catch (E e) { }\n"
ConstructCatch == << " ", " ", "c", "a", "t", "c", "h", " ", "(", "E", " ", "e",
                     ")", " ", "{", " ", "}", "\n" >>

\* "  x = a ? b : c;\n"
ConstructTernary == << " ", " ", "x", " ", "=", " ", "a", " ", "?", " ", "b", " ",
                       ":", " ", "c", ";", "\n" >>

\* "  x = a && b;\n"
ConstructAnd == << " ", " ", "x", " ", "=", " ", "a", " ", "&", "&", " ", "b", ";",
                   "\n" >>

\* "  x = a || b;\n"
ConstructOr == << " ", " ", "x", " ", "=", " ", "a", " ", "|", "|", " ", "b", ";",
                  "\n" >>

BranchConstructs ==
    { ConstructIf, ConstructElseIf, ConstructElse, ConstructWhile, ConstructFor,
      ConstructDo, ConstructSwitch, ConstructCase, ConstructCatch, ConstructTernary,
      ConstructAnd, ConstructOr }

BaseStatements == {ConstructIf, ConstructTernary, StmtLog}

\* the offsets at which a statement of the body of run starts, and the
\* offset after the last one
StatementBoundaries(s) ==
    { p \in LineStarts(s) :
        Len(HeaderPlain \o SigRun) <= p /\ p <= Len(s) - Len(FileEnd) }

InitBranch ==
    /\ pc = "write"
    /\ content = HeaderPlain \o SigRun
    /\ typed = 0
    /\ IdleBody /\ IdleAnn /\ IdleRule /\ IdleDup /\ IdleCfg /\ IdleRun

AddBaseStatement(statement) ==
    /\ pc = "write"
    /\ typed < MaxBranchStmts
    /\ content' = content \o statement
    /\ typed' = typed + 1
    /\ UNCHANGED <<pc, bodyVars, annVars, ruleVars, dupVars, cfgVars, runVars>>

\* r.calculateComplexity(file, method) for the method run
MeasureComplexity ==
    /\ pc \in {"closed", "inserted"}
    /\ extractMethodBody(content, <<"r", "u", "n">>) # Panic
    /\ cyclomatic' = calculateComplexity(content, <<"r", "u", "n">>)
    /\ pc' = IF pc = "closed" THEN "measured" ELSE "remeasured"
    /\ UNCHANGED <<content, typed, methodBody, methodLength, annVars, ruleVars, dupVars, cfgVars, runVars>>

InsertConstruct(construct, p) ==
    /\ pc = "measured"
    /\ p \in StatementBoundaries(content)
    /\ content' = Slice(content, 0, p) \o construct \o Slice(content, p, Len(content))
    /\ pc' = "inserted"
    /\ UNCHANGED <<typed, bodyVars, annVars, ruleVars, dupVars, cfgVars, runVars>>

NextBranch ==
    \/ \E statement \in BaseStatements : AddBaseStatement(statement)
    \/ CloseFile
    \/ MeasureComplexity
    \/ \E construct \in BranchConstructs, p \in 0..Len(content) : InsertConstruct(construct, p)

SpecBranch == InitBranch /\ [][NextBranch]_vars

\* C4: inserting one more branch construct as a separate statement never
\* decreases the result of calculateComplexity and increases it by exactly 1.
C4_MonotonicByOne ==
    [][(pc = "inserted" /\ pc' = "remeasured")
          => (cyclomatic' >= cyclomatic /\ cyclomatic' = cyclomatic + 1)]_vars

-----------------------------------------------------------------------------
(* DuplicateCodeRule.checkDuplicateBlocks (java_rules.go:992-1058)         *)

\* stringRegex.ReplaceAllString(line, `"STRING"`) with stringRegex `"[^"]*"`,
\* applied from offset i on
RECURSIVE ReplaceStringLiterals(_, _)
ReplaceStringLiterals(line, i) ==
    LET open  == IndexFrom(line, i, "\"")
        close == IndexFrom(line, open + 1, "\"")
    IN  IF open = -1 THEN Slice(line, i, Len(line))
        ELSE IF close = -1 THEN Slice(line, i, Len(line))
        ELSE Slice(line, i, open) \o <<"\"", "S", "T", "R", "I", "N", "G", "\"">> \o ReplaceStringLiterals(line, close + 1)

\* numberRegex `\b\d+\b` (kind "number", replacement NUM) and variableRegex
\* `\b[a-zA-Z_][a-zA-Z0-9_]*\b` (kind "variable", replacement VAR), applied
\* from offset i on, i not inside a run of word runes. Both patterns are
\* bounded by \b, so a match is a whole run of word runes: a run of digits
\* only for numberRegex, a run that does not begin with a digit for
\* variableRegex.
RECURSIVE ReplaceWordRuns(_, _, _)
ReplaceWordRuns(line, i, kind) ==
    IF i >= Len(line) THEN <<>>
    ELSE IF ~IsWord(At(line, i)) THEN <<At(line, i)>> \o ReplaceWordRuns(line, i + 1, kind)
    ELSE LET end == SkipWord(line, i)
             run == Slice(line, i, end)
             matches == IF kind = "number"
                        THEN \A k \in 1..Len(run) : run[k] \in Digits
                        ELSE run[1] \notin Digits
             replacement == IF kind = "number" THEN <<"N", "U", "M">> ELSE <<"V", "A", "R">>
         IN  (IF matches THEN replacement ELSE run) \o ReplaceWordRuns(line, end, kind)

\* normalizeCodeLine with the variable pass left out
normalizeCodeLineKeepNames(line) ==
    ReplaceWordRuns(ReplaceStringLiterals(line, 0), 0, "number")

\* lines 1044-1058
normalizeCodeLine(line) ==
    ReplaceWordRuns(ReplaceWordRuns(ReplaceStringLiterals(line, 0), 0, "number"),
                    0, "variable")

\* line 993
blockSize == 5

\* line 1037: a block with fewer code lines has no key
MinCodeLines == 3

\* line 1004: a key with fewer start lines is not reported
MinOccurrences == 2

\* the loop of lines 1026-1035 over block[i..]: the normalized code lines
RECURSIVE NormalizedLines(_, _)
NormalizedLines(block, i) ==
    IF i > Len(block) THEN <<>>
    ELSE LET trimmed == TrimSpace(block[i])
         IN  IF \/ trimmed = <<>>
                \/ HasPrefix(trimmed, <<"/", "/">>)
                \/ HasPrefix(trimmed, <<"*">>)
             THEN NormalizedLines(block, i + 1)
             ELSE <<normalizeCodeLine(trimmed)>> \o NormalizedLines(block, i + 1)

\* lines 1023-1042
normalizeBlock(block) ==
    IF Len(NormalizedLines(block, 1)) < MinCodeLines THEN <<>>
    ELSE Join(NormalizedLines(block, 1), <<"\n">>)

\* the key of every window: element i is normalizeBlock(Lines[i-1 : i-1+blockSize])
WindowKeys(ls) ==
    [i \in 1..(IF Len(ls) >= blockSize THEN Len(ls) - blockSize + 1 ELSE 0) |->
        normalizeBlock(SubSeq(ls, i, i + blockSize - 1))]

\* the elements of a set of integers in ascending order
RECURSIVE Ascending(_)
Ascending(S) == IF S = {} THEN <<>> ELSE <<Min(S)>> \o Ascending(S \ {Min(S)})

\* the map blocks after the loop of lines 996-1001: every key that is not
\* empty, with its start lines in ascending order
BuildBlocks(ls) ==
    LET keys == WindowKeys(ls)
    IN  [key \in {keys[i] : i \in DOMAIN keys} \ {<<>>} |->
            Ascending({i \in DOMAIN keys : keys[i] = key})]

\* ReportedKeys with a group reported only from four start lines on
ReportedKeysFromFour(map) == {key \in DOMAIN map : Len(map[key]) >= 4}

\* the keys that the loop of lines 1003-1020 reports
ReportedKeys(map) == {key \in DOMAIN map : Len(map[key]) >= MinOccurrences}

\* the orders in which `for _, lines := range blocks` can visit the keys of S:
\* Go leaves the iteration order of a map unspecified
RECURSIVE IterationOrders(_)
IterationOrders(S) ==
    IF S = {} THEN {<<>>}
    ELSE UNION {{<<key>> \o rest : rest \in IterationOrders(S \ {key})} : key \in S}

DuplicateRuleID == "java-duplicate-code"

\* line 1012; the Korean format string reads
\* "duplicated code block found (repeated at %d places)"
DuplicateBlockMessage(count) ==
    <<"d", "u", "p", "l", "i", "c", "a", "t", "e", "d", " ", "c", "o", "d", "e", " ", "b", "l", "o", "c", "k", " ", "f", "o", "u", "n", "d", " ", "(", "r", "e", "p", "e", "a", "t", "e", "d", " ", "a", "t", " ">> \o Itoa(count) \o <<" ", "p", "l", "a", "c", "e", "s", ")">>

\* lines 1005-1018: the findings of one key, one for each start line
GroupIssues(ls, starts) ==
    [n \in 1..Len(starts) |->
        [ RuleID      |-> DuplicateRuleID,
          Line        |-> starts[n],
          Column      |-> 1,
          Message     |-> DuplicateBlockMessage(Len(starts)),
          CodeSnippet |-> getCodeSnippet(ls, starts[n]) ]]

\* the findings appended when the reported keys are visited in the given order
RECURSIVE IssuesInOrder(_, _, _)
IssuesInOrder(ls, map, order) ==
    IF order = <<>> THEN <<>>
    ELSE GroupIssues(ls, map[order[1]]) \o IssuesInOrder(ls, map, Tail(order))

\* the second loop of checkDuplicateBlocks (lines 1003-1020): the possible
\* values of *issues when it was empty at the call
DuplicateBlockIssues(ls, map) ==
    {IssuesInOrder(ls, map, order) : order \in IterationOrders(ReportedKeys(map))}

-----------------------------------------------------------------------------
(* Specification SpecDup: a file is written from up to MaxPieces pieces, a *)
(* piece being a five-line block, the same block with its identifiers      *)
(* renamed, or one separator line; then checkDuplicateBlocks runs on it.   *)

MaxPieces == 4

BlockPlain ==
    << <<" ", "a", "(", ")", ";">>, <<" ", "b", "=", "1", ";">>, <<" ", "c", "=", "\"", "s", "\"", ";">>, <<" ", "d", "-", "-", ";">>,
       <<" ", "e", "(", "f", ")", ";">> >>

\* BlockPlain with a -> x2, b -> yy, c -> c_, d -> D, f -> g
BlockRenamed ==
    << <<" ", "x", "2", "(", ")", ";">>, <<" ", "y", "y", "=", "1", ";">>, <<" ", "c", "_", "=", "\"", "s", "\"", ";">>, <<" ", "D", "-", "-", ";">>,
       <<" ", "e", "(", "g", ")", ";">> >>

SepBlank == << <<>> >>

SepReturn == << <<"r", "e", "t", "u", "r", "n", ";">> >>

Pieces == {BlockPlain, BlockRenamed, SepBlank, SepReturn}

\* the text of the lines as readFile builds it: every line followed by "\n"
RECURSIVE TextOf(_)
TextOf(ls) == IF ls = <<>> THEN <<>> ELSE ls[1] \o <<"\n">> \o TextOf(Tail(ls))

\* an empty file: strings.Split gives it one empty line
InitDup ==
    /\ pc = "write"
    /\ content = <<>>
    /\ typed = 0
    /\ astOrigin = "none" /\ javaClass = <<>> /\ jsFunctions = <<>>
    /\ fileLines = FileLines(content) /\ issues = <<>>
    /\ IdleBody /\ IdleAnn /\ IdleDup /\ IdleCfg /\ IdleRun

AddPiece(piece) ==
    /\ pc = "write"
    /\ typed < MaxPieces
    /\ content' = content \o TextOf(piece)
    /\ fileLines' = FileLines(content')
    /\ typed' = typed + 1
    /\ UNCHANGED <<pc, astOrigin, javaClass, jsFunctions, issues, bodyVars, annVars, dupVars, cfgVars, runVars>>

\* r.checkDuplicateBlocks(file, &issues) with no finding collected before
CheckDuplicateBlocks ==
    /\ pc = "write"
    /\ pc' = "checked"
    /\ blocks' = BuildBlocks(fileLines)
    /\ issues' \in DuplicateBlockIssues(fileLines, blocks')
    /\ UNCHANGED <<content, typed, astOrigin, javaClass, jsFunctions, fileLines, bodyVars, annVars, cfgVars, runVars>>

NextDup ==
    \/ \E piece \in Pieces : AddPiece(piece)
    \/ CheckDuplicateBlocks

SpecDup == InitDup /\ [][NextDup]_vars

\* two lines that differ at most by the renaming that turns BlockPlain into
\* BlockRenamed
SameUpToRenaming(a, b) ==
    \/ a = b
    \/ \E k \in 1..blockSize : {a, b} = {BlockPlain[k], BlockRenamed[k]}

\* the start lines of the windows of the file
Windows == 1..(Len(fileLines) - blockSize + 1)

\* the key under which the map holds the window that starts at line i, the
\* empty string for a window that normalizeBlock gave no key
KeyAt(i) ==
    LET holds(key) == \E n \in 1..Len(blocks[key]) : blocks[key][n] = i
    IN  IF \E key \in DOMAIN blocks : holds(key)
        THEN CHOOSE key \in DOMAIN blocks : holds(key)
        ELSE <<>>

\* C5: two five-line windows that differ only by a consistent renaming of
\* identifiers have the same normalizeBlock key, and every window whose key
\* has two or more start lines is reported by checkDuplicateBlocks.
C5_RenamingSymmetric ==
    pc = "checked" =>
        /\ \A i, j \in Windows :
              (\A k \in 0..(blockSize - 1) :
                    SameUpToRenaming(fileLines[i + k], fileLines[j + k]))
                  => KeyAt(i) = KeyAt(j)
        /\ \A key \in DOMAIN blocks :
              Len(blocks[key]) >= 2 =>
                  \A k \in 1..Len(blocks[key]) :
                      \E n \in 1..Len(issues) : issues[n].Line = blocks[key][k]

\* a block and its renamed copy, a line apart: both windows are reported
C5_Witness ==
    /\ pc = "checked"
    /\ content = TextOf(BlockPlain \o SepReturn \o BlockRenamed)
    /\ fileLines = BlockPlain \o SepReturn \o BlockRenamed \o << <<>> >>
    /\ KeyAt(1) = KeyAt(7)
    /\ Len(issues) = 2
    /\ issues[1].Line = 1
    /\ issues[2].Line = 7

\* the keys that exactly three windows of the file have: the blocks that
\* occur three times
ThreeOccurrenceKeys == {key \in DOMAIN blocks : Len(blocks[key]) = 3}

\* C6 as stated: for a file with three occurrences of a block,
\* checkDuplicateBlocks yields three findings, one at the start line of each
\* occurrence, and the three messages carry the same count.
C6_ThreeFindings ==
    pc = "checked" =>
        \A key \in ThreeOccurrenceKeys :
            /\ Len(issues) = 3
            /\ \A n \in 1..Len(issues) : issues[n].Line = blocks[key][n]
            /\ \A n, m \in 1..Len(issues) : issues[n].Message = issues[m].Message

\* C6 amended: for a block that occurs three times the result holds exactly
\* one finding at the start line of each occurrence, the three stand next to
\* each other in ascending line order and each message carries the count 3;
\* the result may hold more findings, for other windows that repeat.
C6_ThreeFindingsAmongOthers ==
    pc = "checked" =>
        \A key \in ThreeOccurrenceKeys :
            /\ \A k \in 1..3 :
                  Cardinality({n \in 1..Len(issues) : issues[n].Line = blocks[key][k]}) = 1
            /\ \E n \in 1..(Len(issues) - 2) :
                  \A k \in 1..3 :
                      /\ issues[n + k - 1].Line = blocks[key][k]
                      /\ issues[n + k - 1].RuleID = DuplicateRuleID
                      /\ issues[n + k - 1].Message = DuplicateBlockMessage(3)

\* three adjacent copies of the block: the three occurrences are reported,
\* and so are the four pairs of windows that straddle two copies
C6_Witness ==
    /\ pc = "checked"
    /\ content = TextOf(BlockPlain \o BlockRenamed \o BlockPlain)
    /\ fileLines = BlockPlain \o BlockRenamed \o BlockPlain \o << <<>> >>
    /\ ThreeOccurrenceKeys # {}
    /\ Len(issues) = 11
    /\ \E n \in 1..9 : issues[n].Line = 1 /\ issues[n + 1].Line = 6 /\ issues[n + 2].Line = 11

-----------------------------------------------------------------------------
(* Package config: severities, LoadConfig, GetRulesForLanguage and the     *)
(* filters.  A RuleConfig is [ID, Severity, Category, Enabled]; the Name,  *)
(* Description, Pattern, Exclude and Custom fields are carried by no       *)
(* operation modelled here.  A Config is its Languages: a sequence of      *)
(* [Language, Rules].                                                      *)
(***************************************************************************)
SeverityLow      == 0
SeverityMedium   == 1
SeverityHigh     == 2
SeverityCritical == 3

\* config.ParseSeverity: case-insensitive, an unknown word is SeverityLow
ParseSeverity(s) ==
    LET l == ToLower(s)
    IN  CASE l = <<"l", "o", "w">>      -> SeverityLow
          [] l = <<"m", "e", "d", "i", "u", "m">>   -> SeverityMedium
          [] l = <<"h", "i", "g", "h">>     -> SeverityHigh
          [] l = <<"c", "r", "i", "t", "i", "c", "a", "l">> -> SeverityCritical
          [] OTHER            -> SeverityLow

\* yaml.Unmarshal into Config: the `enabled` key of a rule is written "true",
\* written "false" or absent, and an absent bool is the zero value false
UnmarshalRule(y) ==
    [ID |-> y.ID, Severity |-> y.Severity, Category |-> y.Category,
     Enabled |-> y.Enabled = "true"]

Unmarshal(y) ==
    [i \in 1..Len(y) |->
        [Language |-> y[i].Language,
         Rules    |-> [j \in 1..Len(y[i].Rules) |-> UnmarshalRule(y[i].Rules[j])]]]

\* the loop of LoadConfig over one rule (lines 535-540)
DefaultEnabled(rule) ==
    IF rule.Enabled = FALSE /\ rule.ID # ""
    THEN [rule EXCEPT !.Enabled = TRUE]
    ELSE rule

\* config.LoadConfig on a readable file of valid YAML
LoadConfig(y) ==
    LET c == Unmarshal(y)
    IN  [i \in 1..Len(c) |->
            [c[i] EXCEPT !.Rules = [j \in 1..Len(c[i].Rules) |-> DefaultEnabled(c[i].Rules[j])]]]

\* Config.GetRulesForLanguage: the enabled rules of the first section of the
\* language, nil (the empty sequence) when there is no such section
GetRulesForLanguage(c, language) ==
    LET hits == {i \in 1..Len(c) : c[i].Language = language}
        IsEnabled(rule) == rule.Enabled
    IN  IF hits = {} THEN <<>>
        ELSE SelectSeq(c[Min(hits)].Rules, IsEnabled)

\* strings.Split(s, sep) for a separator of one rune: one more element than
\* s has separators
SplitOn(s, sep) ==
    LET at == {k \in 1..Len(s) : s[k] = sep}
        nth(i) == IF i = 0 THEN 0
                  ELSE IF i > Cardinality(at) THEN Len(s) + 1
                  ELSE CHOOSE k \in at : Cardinality({j \in at : j < k}) = i - 1
    IN  [i \in 1..(Cardinality(at) + 1) |-> SubSeq(s, nth(i - 1) + 1, nth(i) - 1)]

\* the spelling of the categories that rules are configured with; a
\* RuleConfig.Category is held as one value, the --rules flag as text
CategoryText(category) ==
    CASE category = "security"       -> <<"s", "e", "c", "u", "r", "i", "t", "y">>
      [] category = "style"          -> <<"s", "t", "y", "l", "e">>
      [] category = "performance"    -> <<"p", "e", "r", "f", "o", "r", "m", "a", "n", "c", "e">>
      [] category = "reliability"    -> <<"r", "e", "l", "i", "a", "b", "i", "l", "i", "t", "y">>
      [] category = "best-practices" -> <<"b", "e", "s", "t", "-", "p", "r", "a", "c", "t", "i", "c", "e", "s">>

\* Config.FilterByCategories (part_000:563-583)
FilterByCategories(c, categories) ==
    IF categories = <<>> THEN c
    ELSE LET categoryList == SplitOn(categories, ",")
             categoryMap == {TrimSpace(categoryList[k]) : k \in 1..Len(categoryList)}
             Keeps(rule) == CategoryText(rule.Category) \in categoryMap
         IN  [i \in 1..Len(c) |-> [c[i] EXCEPT !.Rules = SelectSeq(c[i].Rules, Keeps)]]

\* Config.FilterBySeverity
FilterBySeverity(c, min) ==
    LET Keeps(rule) == ParseSeverity(rule.Severity) >= min
    IN  [i \in 1..Len(c) |-> [c[i] EXCEPT !.Rules = SelectSeq(c[i].Rules, Keeps)]]

-----------------------------------------------------------------------------
(* The rule engine: NewEngine and the register functions.  A registered    *)
(* rule is [Ctor, config]: the constructor the switch chose and the        *)
(* RuleConfig it was given.                                                *)
(***************************************************************************)
\* the switch of registerJavaRules: id -> constructor
JavaConstructors ==
    [id \in {"java-transactional-missing", "java-system-out",
              "java-layer-architecture", "java-exception-handling",
              "java-input-validation", "java-magic-number",
              "java-method-length", "java-cyclomatic-complexity",
              "java-duplicate-code", "java-coding-conventions",
              "spring-validation-missing", "spring-transactional-private",
              "spring-transactional-rollback", "spring-security-missing",
              "spring-secured-deprecated", "spring-field-injection",
              "spring-controller-advice-missing"} |->
        CASE id = "java-transactional-missing"       -> "NewTransactionalRule"
          [] id = "java-system-out"                  -> "NewSystemOutRule"
          [] id = "java-layer-architecture"          -> "NewLayerArchitectureRule"
          [] id = "java-exception-handling"          -> "NewExceptionHandlingRule"
          [] id = "java-input-validation"            -> "NewInputValidationRule"
          [] id = "java-magic-number"                -> "NewMagicNumberRule"
          [] id = "java-method-length"               -> "NewMethodLengthRule"
          [] id = "java-cyclomatic-complexity"       -> "NewCyclomaticComplexityRule"
          [] id = "java-duplicate-code"              -> "NewDuplicateCodeRule"
          [] id = "java-coding-conventions"          -> "NewCodingConventionRule"
          [] id = "spring-validation-missing"        -> "NewSpringValidationRule"
          [] id = "spring-transactional-private"     -> "NewSpringTransactionalRule"
          [] id = "spring-transactional-rollback"    -> "NewSpringTransactionalRule"
          [] id = "spring-security-missing"          -> "NewSpringSecurityRule"
          [] id = "spring-secured-deprecated"        -> "NewSpringSecurityRule"
          [] id = "spring-field-injection"           -> "NewSpringDependencyInjectionRule"
          [] id = "spring-controller-advice-missing" -> "NewSpringExceptionHandlingRule"]

\* the switch of registerJavaScriptRules
JavaScriptConstructors ==
    [id \in {"js-innerHTML-xss", "js-memory-leak", "js-function-length",
              "js-console-log", "js-var-usage"} |->
        CASE id = "js-innerHTML-xss"   -> "NewInnerHTMLXSSRule"
          [] id = "js-memory-leak"     -> "NewMemoryLeakRule"
          [] id = "js-function-length" -> "NewFunctionLengthRule"
          [] id = "js-console-log"     -> "NewConsoleLogRule"
          [] id = "js-var-usage"       -> "NewVarUsageRule"]

\* the switch of registerHTMLRules
HTMLConstructors ==
    [id \in {"html-img-alt", "html-accessibility", "html-seo"} |->
        CASE id = "html-img-alt"       -> "NewImgAltRule"
          [] id = "html-accessibility" -> "NewAccessibilityRule"
          [] id = "html-seo"           -> "NewSEORule"]

\* the switch of registerCSSRules
CSSConstructors ==
    [id \in {"css-selectors", "css-responsive-design"} |->
        CASE id = "css-selectors"         -> "NewCSSSelectorsRule"
          [] id = "css-responsive-design" -> "NewResponsiveDesignRule"]

\* the loop of a register function with a default case in the switch
RECURSIVE RegisterEveryId(_, _)
RegisterEveryId(ruleConfigs, table) ==
    IF ruleConfigs = <<>> THEN <<>>
    ELSE LET ruleConfig == Head(ruleConfigs)
         IN  <<[Ctor |-> "NewRule", config |-> ruleConfig]>>
             \o RegisterEveryId(Tail(ruleConfigs), table)

\* the loop of a register function: every configuration whose id has a case
\* in the switch, in order, built by that case's constructor
RECURSIVE Register(_, _)
Register(ruleConfigs, table) ==
    IF ruleConfigs = <<>> THEN <<>>
    ELSE LET ruleConfig == Head(ruleConfigs)
         IN  (IF ruleConfig.ID \in DOMAIN table
              THEN <<[Ctor |-> table[ruleConfig.ID], config |-> ruleConfig]>>
              ELSE <<>>)
             \o Register(Tail(ruleConfigs), table)

registerJavaRules(c) == Register(GetRulesForLanguage(c, "java"), JavaConstructors)

registerJavaScriptRules(c) ==
    Register(GetRulesForLanguage(c, "javascript"), JavaScriptConstructors)

registerHTMLRules(c) == Register(GetRulesForLanguage(c, "html"), HTMLConstructors)

registerCSSRules(c) == Register(GetRulesForLanguage(c, "css"), CSSConstructors)

\* NewEngine and initializeRules: Engine.rules after the four register calls
NewEngine(c) ==
    [language \in {"java", "javascript", "typescript", "html", "css"} |->
        CASE language = "java"       -> registerJavaRules(c)
          [] language = "javascript" -> registerJavaScriptRules(c)
          [] language = "typescript" -> registerJavaScriptRules(c)
          [] language = "html"       -> registerHTMLRules(c)
          [] language = "css"        -> registerCSSRules(c)]

-----------------------------------------------------------------------------
(* SpecConfig: a configuration file is written section by section and rule *)
(* by rule, then loaded by LoadConfig or handed over as a Config literal,  *)
(* filtered by severity, and given to NewEngine.                           *)
(***************************************************************************)
MaxSections == 2
MaxRules    == 2

ConfigLanguages == {"java", "javascript"}

\* the rule entries a configuration file is written from
ConfigEntries ==
    { [ID |-> "java-system-out", Severity |-> <<"h", "i", "g", "h">>,
       Category |-> "security", Enabled |-> "true"],
      [ID |-> "java-system-out", Severity |-> <<"l", "o", "w">>,
       Category |-> "security", Enabled |-> "false"],
      [ID |-> "java-coding-conventions", Severity |-> <<"H", "i", "g", "h">>,
       Category |-> "style", Enabled |-> "absent"],
      [ID |-> "java-sytem-out", Severity |-> <<"c", "r", "i", "t", "i", "c", "a", "l">>,
       Category |-> "security", Enabled |-> "true"],
      [ID |-> "", Severity |-> <<"m", "e", "d", "i", "u", "m">>,
       Category |-> "style", Enabled |-> "false"],
      [ID |-> "js-console-log", Severity |-> <<"u", "r", "g", "e", "n", "t">>,
       Category |-> "performance", Enabled |-> "true"] }

\* the values of --min-severity
MinSeverityFlags ==
    { <<"l", "o", "w">>, <<"m", "e", "d", "i", "u", "m">>, <<"h", "i", "g", "h">>,
      <<"c", "r", "i", "t", "i", "c", "a", "l">> }

\* the values of --rules: not given, "style", "security, style"
RulesFilterFlags ==
    { <<>>, <<"s", "t", "y", "l", "e">>,
      <<"s", "e", "c", "u", "r", "i", "t", "y", ",", " ", "s", "t", "y", "l", "e">> }

RECURSIVE CountRules(_)
CountRules(y) == IF y = <<>> THEN 0 ELSE Len(Head(y).Rules) + CountRules(Tail(y))

InitConfig ==
    /\ pc = "config"
    /\ content = <<>>
    /\ typed = 0
    /\ IdleBody /\ IdleAnn /\ IdleRule /\ IdleDup /\ IdleCfg /\ IdleRun

\* a `- language:` section is appended to the file
AddSection ==
    /\ pc = "config"
    /\ Len(yaml) < MaxSections
    /\ \E language \in ConfigLanguages :
          yaml' = Append(yaml, [Language |-> language, Rules |-> <<>>])
    /\ UNCHANGED <<pc, content, typed, cfg, cfgOrigin, minSeverity, rulesFilter, engine,
                   bodyVars, annVars, ruleVars, dupVars, runVars>>

\* a rule is appended to the last section of the file
AddRule ==
    /\ pc = "config"
    /\ yaml # <<>>
    /\ CountRules(yaml) < MaxRules
    /\ \E entry \in ConfigEntries :
          yaml' = [yaml EXCEPT ![Len(yaml)].Rules = Append(@, entry)]
    /\ UNCHANGED <<pc, content, typed, cfg, cfgOrigin, minSeverity, rulesFilter, engine,
                   bodyVars, annVars, ruleVars, dupVars, runVars>>

\* config.LoadConfig(configFile)
ReadConfigFile ==
    /\ pc = "config"
    /\ pc' = "loaded"
    /\ cfg' = LoadConfig(yaml)
    /\ cfgOrigin' = "LoadConfig"
    /\ UNCHANGED <<content, typed, yaml, minSeverity, rulesFilter, engine,
                   bodyVars, annVars, ruleVars, dupVars, runVars>>

\* a caller builds the Config itself: every field is as written
UseConfigLiteral ==
    /\ pc = "config"
    /\ pc' = "loaded"
    /\ cfg' = Unmarshal(yaml)
    /\ cfgOrigin' = "literal"
    /\ UNCHANGED <<content, typed, yaml, minSeverity, rulesFilter, engine,
                   bodyVars, annVars, ruleVars, dupVars, runVars>>

\* step 2 of runAnalysis (build.bat:188-192): cfg.FilterByCategories when
\* --rules is given, then cfg.FilterBySeverity(config.ParseSeverity(minSeverity))
FilterRules ==
    /\ pc = "loaded"
    /\ pc' = "filtered"
    /\ \E flag \in MinSeverityFlags, categories \in RulesFilterFlags :
          /\ minSeverity' = flag
          /\ rulesFilter' = categories
          /\ cfg' = FilterBySeverity(IF categories # <<>>
                                     THEN FilterByCategories(cfg, categories)
                                     ELSE cfg,
                                     ParseSeverity(flag))
    /\ UNCHANGED <<content, typed, yaml, cfgOrigin, engine,
                   bodyVars, annVars, ruleVars, dupVars, runVars>>

\* rules.NewEngine(cfg)
CreateEngine ==
    /\ pc \in {"loaded", "filtered"}
    /\ pc' = "engine"
    /\ engine' = NewEngine(cfg)
    /\ UNCHANGED <<content, typed, yaml, cfg, cfgOrigin, minSeverity, rulesFilter,
                   bodyVars, annVars, ruleVars, dupVars, runVars>>

NextConfig ==
    \/ AddSection
    \/ AddRule
    \/ ReadConfigFile
    \/ UseConfigLiteral
    \/ FilterRules
    \/ CreateEngine

SpecConfig == InitConfig /\ [][NextConfig]_vars

\* the rules written in the file for a language: those of its first section
WrittenRules(language) ==
    LET hits == {i \in 1..Len(yaml) : yaml[i].Language = language}
    IN  IF hits = {} THEN <<>> ELSE yaml[Min(hits)].Rules

\* the written rule a RuleConfig was read from
ReadFrom(ruleConfig, written) ==
    /\ written.ID = ruleConfig.ID
    /\ written.Severity = ruleConfig.Severity
    /\ written.Category = ruleConfig.Category

\* C11: for a configuration loaded with LoadConfig, a rule written with
\* `enabled: false` is not returned by GetRulesForLanguage and is not
\* instantiated by NewEngine: every rule returned or registered for a language
\* was read from a rule of that language not written with `enabled: false`.
C11_DisabledNeverRegistered ==
    cfgOrigin = "LoadConfig" =>
        \A language \in ConfigLanguages :
            LET wr == WrittenRules(language)
                on(ruleConfig) ==
                    \E j \in 1..Len(wr) :
                        ReadFrom(ruleConfig, wr[j]) /\ wr[j].Enabled # "false"
                got == GetRulesForLanguage(cfg, language)
            IN  /\ \A k \in 1..Len(got) : on(got[k])
                /\ pc = "engine" =>
                      \A k \in 1..Len(engine[language]) : on(engine[language][k].config)

\* the rules of the configuration for a language: those of its first section
SectionRules(language) ==
    LET hits == {i \in 1..Len(cfg) : cfg[i].Language = language}
    IN  IF hits = {} THEN <<>> ELSE cfg[Min(hits)].Rules

\* the list `registered` holds one instance per enabled rule of the language
\* whose id is in `table`, in configuration order, built by the table
RegisteredFrom(registered, language, table) ==
    LET Known(rule) == rule.Enabled /\ rule.ID \in DOMAIN table
        expected == SelectSeq(SectionRules(language), Known)
    IN  /\ Len(registered) = Len(expected)
        /\ \A k \in 1..Len(expected) :
              /\ registered[k].config = expected[k]
              /\ registered[k].Ctor = table[expected[k].ID]

\* C14: NewEngine registers, for each language, one rule instance per enabled
\* configuration entry whose id is in the language's identifier-to-constructor
\* table, in configuration order, and nothing for any other id; it always
\* returns an engine, and the lists for javascript and typescript are the same.
C14_UnknownIdsDropped ==
    pc = "engine" =>
        /\ DOMAIN engine = {"java", "javascript", "typescript", "html", "css"}
        /\ RegisteredFrom(engine["java"], "java", JavaConstructors)
        /\ RegisteredFrom(engine["javascript"], "javascript", JavaScriptConstructors)
        /\ RegisteredFrom(engine["html"], "html", HTMLConstructors)
        /\ RegisteredFrom(engine["css"], "css", CSSConstructors)
        /\ engine["typescript"] = engine["javascript"]

\* an engine built from a java section that holds a rule with a misspelt id
\* next to a known one: only the known one is registered
C14_Witness ==
    /\ pc = "engine"
    /\ Len(SectionRules("java")) = 2
    /\ SectionRules("java")[1].ID = "java-sytem-out"
    /\ SectionRules("java")[1].Enabled
    /\ SectionRules("java")[2].ID = "java-coding-conventions"
    /\ SectionRules("java")[2].Enabled
    /\ Len(engine["java"]) = 1
    /\ engine["java"][1].Ctor = "NewCodingConventionRule"

-----------------------------------------------------------------------------
(* The rules a run registers here: SystemOutRule, CodingConventionRule and *)
(* ConsoleLogRule.  A ParsedFile is [Path, Language, Content, Lines,       *)
(* ASTKind, JavaClass]: ASTKind names the dynamic type of AST, and         *)
(* JavaClass is the value when that type is *parser.JavaClass.  A finding  *)
(* is a types.Issue without Description and Suggestion, which are fixed    *)
(* texts.  Messages are written in Korean in the source and rendered here  *)
(* in English.                                                             *)
(***************************************************************************)
\* the greatest element of a non-empty set of integers
Max(S) == CHOOSE x \in S : \A y \in S : x >= y

\* getLineNumberFromPosition (java_rules.go:548-550) for the rune offset pos
getLineNumberFromPosition(s, pos) == Cardinality({k \in 1..pos : s[k] = "\n"}) + 1

\* getColumnFromPosition (java_rules.go:552-558): the bytes between the last
\* "\n" before the rune offset pos and pos, plus 1
getColumnFromPosition(s, pos) ==
    LET breaks == {k \in 1..pos : s[k] = "\n"}
        from   == IF breaks = {} THEN 0 ELSE Max(breaks)
    IN  ByteOff(s, pos) - ByteOff(s, from) + 1

\* Rule.Severity(): every rule parses the severity of its configuration
RuleSeverity(rule) == ParseSeverity(rule.config.Severity)

\* the types.Issue literal every rule fills in
NewIssue(rule, file, line, column, severity, message, snippet) ==
    [ RuleID      |-> rule.config.ID,
      File        |-> file.Path,
      Line        |-> line,
      Column      |-> column,
      Severity    |-> severity,
      Category    |-> rule.config.Category,
      Message     |-> message,
      CodeSnippet |-> snippet ]

\* the findings of a rule that reports every match of a regular expression,
\* given the offsets of the matches (SystemOutRule.Check lines 295-310,
\* ConsoleLogRule.Check lines 238-254)
MatchIssues(rule, file, offsets, message, trim) ==
    LET at == Ascending(offsets)
    IN  [n \in 1..Len(at) |->
            LET lineNum == getLineNumberFromPosition(file.Content, at[n])
            IN  NewIssue(rule, file, lineNum,
                         getColumnFromPosition(file.Content, at[n]),
                         RuleSeverity(rule), message,
                         IF lineNum <= 0 \/ lineNum > Len(file.Lines) THEN <<>>
                         ELSE IF trim THEN TrimSpace(file.Lines[lineNum])
                         ELSE file.Lines[lineNum])]

\* SystemOutRule.Check: the matches of `System\.out\.(print|println)`
SystemOutCheck(rule, file) ==
    MatchIssues(rule, file,
                {i \in 0..(Len(file.Content) - 1) :
                    HasLit(file.Content, i, <<"S", "y", "s", "t", "e", "m", ".", "o", "u", "t", ".", "p", "r", "i", "n", "t">>)},
                <<"S", "y", "s", "t", "e", "m", ".", "o", "u", "t", ".", "p", "r", "i", "n", "t", "l", "n", " ", "f", "o", "u", "n", "d">>, TRUE)

\* ConsoleLogRule.Check: the matches of `console\.(log|warn|error|info|debug)`
ConsoleLogCheck(rule, file) ==
    MatchIssues(rule, file,
                {i \in 0..(Len(file.Content) - 1) :
                    \E word \in { <<"c", "o", "n", "s", "o", "l", "e", ".", "l", "o", "g">>, <<"c", "o", "n", "s", "o", "l", "e", ".", "w", "a", "r", "n">>, <<"c", "o", "n", "s", "o", "l", "e", ".", "e", "r", "r", "o", "r">>,
                                  <<"c", "o", "n", "s", "o", "l", "e", ".", "i", "n", "f", "o">>, <<"c", "o", "n", "s", "o", "l", "e", ".", "d", "e", "b", "u", "g">> } :
                        HasLit(file.Content, i, word)},
                <<"c", "o", "n", "s", "o", "l", "e", ".", "l", "o", "g", " ", "f", "o", "u", "n", "d">>, FALSE)

\* CodingConventionRule.checkAnnotationConsistency (lines 1102-1148)
checkAnnotationConsistency(rule, file) ==
    LET s == file.Content
        resource  == Ascending({i \in 0..(Len(s) - 1) : HasLit(s, i, <<"@", "R", "e", "s", "o", "u", "r", "c", "e">>)})
        autowired == Ascending({i \in 0..(Len(s) - 1) : HasLit(s, i, <<"@", "A", "u", "t", "o", "w", "i", "r", "e", "d">>)})
        issue(pos, severity, message) ==
            NewIssue(rule, file, getLineNumberFromPosition(s, pos),
                     getColumnFromPosition(s, pos), severity, message,
                     getCodeSnippet(file.Lines, getLineNumberFromPosition(s, pos)))
    IN  IF resource # <<>> /\ autowired # <<>>
        THEN [n \in 1..Len(resource) |->
                 issue(resource[n], RuleSeverity(rule),
                       <<"@", "R", "e", "s", "o", "u", "r", "c", "e", " ", "a", "n", "d", " ", "@", "A", "u", "t", "o", "w", "i", "r", "e", "d", " ", "a", "r", "e", " ", "m", "i", "x", "e", "d">>)]
             \o [n \in 1..Len(autowired) |->
                 issue(autowired[n], SeverityLow,
                       <<"@", "R", "e", "s", "o", "u", "r", "c", "e", " ", "a", "n", "d", " ", "@", "A", "u", "t", "o", "w", "i", "r", "e", "d", " ", "a", "r", "e", " ", "m", "i", "x", "e", "d", " ", "i", "n", " ", "o", "n", "e", " ", "c", "l", "a", "s", "s">>)]
        ELSE <<>>

\* lines 1243-1249
isPascalCase(name) ==
    /\ Len(name) > 0
    /\ name[1] \in UpperLetters
    /\ ~Contains(name, <<"_">>)

\* lines 1251-1257
isCamelCase(name) ==
    /\ Len(name) > 0
    /\ name[1] \in LowerLetters
    /\ ~Contains(name, <<"_">>)

\* lines 1259-1269
isSpecialMethod(name) ==
    \/ name \in { <<"t", "o", "S", "t", "r", "i", "n", "g">>, <<"h", "a", "s", "h", "C", "o", "d", "e">>, <<"e", "q", "u", "a", "l", "s">>, <<"m", "a", "i", "n">> }
    \/ HasPrefix(name, <<"g", "e", "t">>)
    \/ HasPrefix(name, <<"s", "e", "t">>)
    \/ HasPrefix(name, <<"i", "s">>)

\* lines 1271-1274
isConstant(field) == field.IsStatic /\ field.IsFinal

\* CodingConventionRule.checkNamingConvention (lines 1150-1202)
checkNamingConvention(rule, file) ==
    LET class == file.JavaClass
        badMethod(method) == ~isCamelCase(method.Name) /\ ~isSpecialMethod(method.Name)
        badField(field)   == ~isCamelCase(field.Name) /\ ~isConstant(field)
        methods == SelectSeq(class.Methods, badMethod)
        fields  == SelectSeq(class.Fields, badField)
    IN  (IF ~isPascalCase(class.Name)
         THEN << NewIssue(rule, file, 1, 1, RuleSeverity(rule),
                          <<"c", "l", "a", "s", "s", " ", "n", "a", "m", "e", " ", "i", "s", " ", "n", "o", "t", " ", "P", "a", "s", "c", "a", "l", "C", "a", "s", "e", ":", " ">> \o class.Name,
                          <<"c", "l", "a", "s", "s", " ">> \o class.Name) >>
         ELSE <<>>)
        \o [n \in 1..Len(methods) |->
               NewIssue(rule, file, methods[n].Line, methods[n].Column,
                        RuleSeverity(rule),
                        <<"m", "e", "t", "h", "o", "d", " ", "n", "a", "m", "e", " ", "i", "s", " ", "n", "o", "t", " ", "c", "a", "m", "e", "l", "C", "a", "s", "e", ":", " ">> \o methods[n].Name,
                        getCodeSnippet(file.Lines, methods[n].Line))]
        \o [n \in 1..Len(fields) |->
               NewIssue(rule, file, fields[n].Line, 1, RuleSeverity(rule),
                        <<"f", "i", "e", "l", "d", " ", "n", "a", "m", "e", " ", "i", "s", " ", "n", "o", "t", " ", "c", "a", "m", "e", "l", "C", "a", "s", "e", ":", " ">> \o fields[n].Name,
                        getCodeSnippet(file.Lines, fields[n].Line))]

MaxLineLength == 120

\* CodingConventionRule.checkCodeStyle (lines 1204-1241): `^\s{4,}` has no
\* (?m) flag, so it tests the start of the content; len(line) counts bytes
checkCodeStyle(rule, file) ==
    LET s == file.Content
        hasTab == Contains(s, <<"\t">>)
        hasSpaceIndent == Len(s) >= 4 /\ \A k \in 1..4 : IsSpace(s[k])
        long == Ascending({i \in 1..Len(file.Lines) :
                              ByteOff(file.Lines[i], Len(file.Lines[i])) > MaxLineLength})
    IN  (IF hasTab /\ hasSpaceIndent
         THEN << NewIssue(rule, file, 1, 1, RuleSeverity(rule),
                          <<"t", "a", "b", "s", " ", "a", "n", "d", " ", "s", "p", "a", "c", "e", "s", " ", "a", "r", "e", " ", "m", "i", "x", "e", "d">>, <<>>) >>
         ELSE <<>>)
        \o [n \in 1..Len(long) |->
               NewIssue(rule, file, long[n], MaxLineLength + 1, SeverityLow,
                        <<"l", "i", "n", "e", " ", "i", "s", " ", "t", "o", "o", " ", "l", "o", "n", "g", " ", "(">>
                        \o Itoa(ByteOff(file.Lines[long[n]], Len(file.Lines[long[n]])))
                        \o <<" ", "c", "h", "a", "r", "s", ")">>,
                        getCodeSnippet(file.Lines, long[n]))]

\* CodingConventionRule.Check (lines 1082-1100)
CodingConventionCheck(rule, file) ==
    IF file.ASTKind # "JavaClass" THEN <<>>
    ELSE checkAnnotationConsistency(rule, file)
         \o checkNamingConvention(rule, file)
         \o checkCodeStyle(rule, file)

\* the end of `private\s+\w+\s+(\w+)\s*\(` matched at offset q, -1 when it
\* does not match there
PrivateMethodEnd(s, q) ==
    IF ~HasLit(s, q, <<"p", "r", "i", "v", "a", "t", "e">>) THEN -1
    ELSE LET a == SkipSpace(s, q + 7)
             b == SkipWord(s, a)
             c == SkipSpace(s, b)
             d == SkipWord(s, c)
             e == SkipSpace(s, d)
         IN  IF a > q + 7 /\ b > a /\ c > b /\ d > c /\ HasLit(s, e, <<"(">>)
             THEN e + 1 ELSE -1

\* the end of privateTransactionalRegex
\* `@Transactional[^\n]*\n[^\n]*private\s+\w+\s+(\w+)\s*\(` matched at offset
\* p, -1 when it does not match there: the rest of the annotation's line,
\* then on the next line the last `private` that the rest matches from
\* (the second [^\n]* is greedy)
PrivateTransactionalEnd(s, p) ==
    IF ~HasLit(s, p, <<"@", "T", "r", "a", "n", "s", "a", "c", "t", "i", "o", "n", "a", "l">>) THEN -1
    ELSE LET nl == IndexFrom(s, p + 14, "\n")
             next == IF nl = -1 THEN -1 ELSE IndexFrom(s, nl + 1, "\n")
             lineEnd == IF next = -1 THEN Len(s) ELSE next
             starts == IF nl = -1 THEN {}
                       ELSE {q \in (nl + 1)..(lineEnd - 1) : PrivateMethodEnd(s, q) # -1}
         IN  IF starts = {} THEN -1 ELSE PrivateMethodEnd(s, Max(starts))

\* the alternatives of the capture group of sensitiveMethodRegex, in order
SensitiveWords ==
    << <<"d", "e", "l", "e", "t", "e">>, <<"r", "e", "m", "o", "v", "e">>, <<"a", "d", "m", "i", "n">>, <<"u", "p", "d", "a", "t", "e">>, <<"m", "o", "d", "i", "f", "y">>, <<"c", "r", "e", "a", "t", "e">>, <<"a", "d", "d">> >>

\* the match of sensitiveMethodRegex
\* `public\s+\w+\s+(delete|remove|admin|update|modify|create|add)\w*\s*\([^)]*\)\s*(?:throws[^{]*)?\{`
\* at offset p: [End, Word], End = -1 when it does not match there
SensitiveMethodMatch(s, p) ==
    IF ~HasLit(s, p, <<"p", "u", "b", "l", "i", "c">>) THEN [End |-> -1, Word |-> <<>>]
    ELSE LET a == SkipSpace(s, p + 6)
             b == SkipWord(s, a)
             c == SkipSpace(s, b)
             words == {k \in 1..Len(SensitiveWords) : HasLit(s, c, SensitiveWords[k])}
             d == SkipWord(s, c)
             e == SkipSpace(s, d)
             f == IF HasLit(s, e, <<"(">>) THEN IndexFrom(s, e + 1, ")") ELSE -1
             g == SkipSpace(s, f + 1)
             h == IF HasLit(s, g, <<"t", "h", "r", "o", "w", "s">>) THEN IndexFrom(s, g + 6, "{") ELSE -1
             end == IF f = -1 THEN -1
                    ELSE IF HasLit(s, g, <<"{">>) THEN g + 1
                    ELSE IF h # -1 THEN h + 1
                    ELSE -1
         IN  IF a > p + 6 /\ b > a /\ c > b /\ words # {} /\ end # -1
             THEN [End |-> end, Word |-> SensitiveWords[Min(words)]]
             ELSE [End |-> -1, Word |-> <<>>]

\* the end of the match of a pattern of the Spring rules at offset p
SpringMatchEnd(kind, s, p) ==
    CASE kind = "private"   -> PrivateTransactionalEnd(s, p)
      [] kind = "sensitive" -> SensitiveMethodMatch(s, p).End

\* FindAllStringIndex(file.Content, -1) for a pattern of the Spring rules:
\* the start offsets of the leftmost matches that do not overlap, from
\* offset `from` on
RECURSIVE SpringMatchesFrom(_, _, _)
SpringMatchesFrom(kind, s, from) ==
    LET starts == {p \in from..(Len(s) - 1) : SpringMatchEnd(kind, s, p) # -1}
    IN  IF starts = {} THEN <<>>
        ELSE <<Min(starts)>> \o SpringMatchesFrom(kind, s, SpringMatchEnd(kind, s, Min(starts)))

\* the start offsets of the occurrences of a literal, in ascending order
LiteralMatches(s, lit) == Ascending({p \in 0..(Len(s) - 1) : HasLit(s, p, lit)})

\* SpringTransactionalRule.hasThrowsException (part_002:477-489)
hasThrowsException(s, lineNum) ==
    LET lines == SplitLines(s)
    IN  \E i \in lineNum..Min({Len(lines), lineNum + 5}) :
            Contains(lines[i], <<"t", "h", "r", "o", "w", "s", " ", "E", "x", "c", "e", "p", "t", "i", "o", "n">>)

\* part_002:441; the Korean text reads "@Transactional is used on a private
\* method"
PrivateTransactionalMessage ==
    <<"@", "T", "r", "a", "n", "s", "a", "c", "t", "i", "o", "n", "a", "l", " ", "o", "n", " ", "a", " ", "p", "r", "i", "v", "a", "t", "e", " ", "m", "e", "t", "h", "o", "d">>

\* part_002:466; the Korean text reads "rollbackFor is missing in
\* @Transactional"
RollbackMessage ==
    <<"@", "T", "r", "a", "n", "s", "a", "c", "t", "i", "o", "n", "a", "l", " ", "w", "i", "t", "h", "o", "u", "t", " ", "r", "o", "l", "l", "b", "a", "c", "k", "F", "o", "r">>

\* the first loop of SpringTransactionalRule.Check (part_002:425-446)
PrivateTransactionalIssues(rule, file) ==
    LET s == file.Content
        at == SpringMatchesFrom("private", s, 0)
    IN  [n \in 1..Len(at) |->
            NewIssue(rule, file, getLineNumberFromPosition(s, at[n]),
                     getColumnFromPosition(s, at[n]), RuleSeverity(rule),
                     PrivateTransactionalMessage,
                     getCodeSnippet(file.Lines, getLineNumberFromPosition(s, at[n])))]

\* the second loop of SpringTransactionalRule.Check (part_002:448-472)
RollbackIssues(rule, file) ==
    LET s == file.Content
        missing(p) ==
            /\ ~Contains(getCodeSnippet(file.Lines, getLineNumberFromPosition(s, p)),
                         <<"r", "o", "l", "l", "b", "a", "c", "k", "F", "o", "r">>)
            /\ hasThrowsException(s, getLineNumberFromPosition(s, p))
        at == SelectSeq(LiteralMatches(s, <<"@", "T", "r", "a", "n", "s", "a", "c", "t", "i", "o", "n", "a", "l">>), missing)
    IN  [n \in 1..Len(at) |->
            [NewIssue(rule, file, getLineNumberFromPosition(s, at[n]),
                      getColumnFromPosition(s, at[n]), SeverityMedium,
                      RollbackMessage,
                      getCodeSnippet(file.Lines, getLineNumberFromPosition(s, at[n])))
                EXCEPT !.Category = "reliability"]]

\* SpringTransactionalRule.Check (part_002:422-475)
SpringTransactionalCheck(rule, file) ==
    PrivateTransactionalIssues(rule, file) \o RollbackIssues(rule, file)

\* SpringSecurityRule.isController (part_002:572-584)
isController(s) ==
    \/ Contains(s, <<"@", "C", "o", "n", "t", "r", "o", "l", "l", "e", "r">>)
    \/ Contains(s, <<"@", "R", "e", "s", "t", "C", "o", "n", "t", "r", "o", "l", "l", "e", "r">>)

\* SpringSecurityRule.hasSecurityAnnotation (part_002:586-605)
hasSecurityAnnotation(s, lineNum) ==
    LET lines == SplitLines(s)
    IN  \E i \in Max({1, lineNum - 4})..Min({Len(lines), lineNum}) :
            \E annotation \in { <<"@", "P", "r", "e", "A", "u", "t", "h", "o", "r", "i", "z", "e">>, <<"@", "P", "o", "s", "t", "A", "u", "t", "h", "o", "r", "i", "z", "e">>,
                                <<"@", "S", "e", "c", "u", "r", "e", "d">>, <<"@", "R", "o", "l", "e", "s", "A", "l", "l", "o", "w", "e", "d">> } :
                Contains(lines[i], annotation)

\* part_002:539; the Korean text reads "a security annotation is missing on
\* a sensitive method: " followed by the captured word
SensitiveMessage(word) ==
    <<"s", "e", "c", "u", "r", "i", "t", "y", " ", "a", "n", "n", "o", "t", "a", "t", "i", "o", "n", " ", "m", "i", "s", "s", "i", "n", "g", ":", " ">> \o word

\* part_002:561; the Korean text reads "@PreAuthorize is recommended instead
\* of @Secured"
SecuredMessage ==
    <<"@", "P", "r", "e", "A", "u", "t", "h", "o", "r", "i", "z", "e", " ", "r", "e", "c", "o", "m", "m", "e", "n", "d", "e", "d", " ", "i", "n", "s", "t", "e", "a", "d", " ", "o", "f", " ", "@", "S", "e", "c", "u", "r", "e", "d">>

\* the first loop of SpringSecurityRule.Check (part_002:523-547)
SensitiveIssues(rule, file) ==
    LET s == file.Content
        open(p) == ~hasSecurityAnnotation(s, getLineNumberFromPosition(s, p))
        at == SelectSeq(SpringMatchesFrom("sensitive", s, 0), open)
    IN  [n \in 1..Len(at) |->
            NewIssue(rule, file, getLineNumberFromPosition(s, at[n]),
                     getColumnFromPosition(s, at[n]), RuleSeverity(rule),
                     SensitiveMessage(SensitiveMethodMatch(s, at[n]).Word),
                     getCodeSnippet(file.Lines, getLineNumberFromPosition(s, at[n])))]

\* the second loop of SpringSecurityRule.Check (part_002:549-567)
SecuredIssues(rule, file) ==
    LET s == file.Content
        at == LiteralMatches(s, <<"@", "S", "e", "c", "u", "r", "e", "d">>)
    IN  [n \in 1..Len(at) |->
            [NewIssue(rule, file, getLineNumberFromPosition(s, at[n]),
                      getColumnFromPosition(s, at[n]), SeverityMedium,
                      SecuredMessage,
                      getCodeSnippet(file.Lines, getLineNumberFromPosition(s, at[n])))
                EXCEPT !.Category = "best-practices"]]

\* SpringSecurityRule.Check (part_002:513-570)
SpringSecurityCheck(rule, file) ==
    IF ~isController(file.Content) THEN <<>>
    ELSE SensitiveIssues(rule, file) \o SecuredIssues(rule, file)

\* rule.Check(file) of the Rule interface, by the type the constructor built
RuleCheck(rule, file) ==
    CASE rule.Ctor = "NewSystemOutRule"        -> SystemOutCheck(rule, file)
      [] rule.Ctor = "NewCodingConventionRule" -> CodingConventionCheck(rule, file)
      [] rule.Ctor = "NewConsoleLogRule"       -> ConsoleLogCheck(rule, file)
      [] rule.Ctor = "NewSpringTransactionalRule" -> SpringTransactionalCheck(rule, file)
      [] rule.Ctor = "NewSpringSecurityRule"   -> SpringSecurityCheck(rule, file)

\* Engine.CheckFile that stops after the first rule that reports something
RECURSIVE CheckRulesFirstOnly(_, _)
CheckRulesFirstOnly(rules, file) ==
    IF rules = <<>> THEN <<>>
    ELSE IF RuleCheck(Head(rules), file) # <<>> THEN RuleCheck(Head(rules), file)
    ELSE CheckRulesFirstOnly(Tail(rules), file)

\* the loop of Engine.CheckFile (lines 63-66)
RECURSIVE CheckRules(_, _)
CheckRules(rules, file) ==
    IF rules = <<>> THEN <<>>
    ELSE RuleCheck(Head(rules), file) \o CheckRules(Tail(rules), file)

\* Engine.CheckFile (lines 54-69) on the map `registry`
CheckFile(registry, file, language) ==
    IF language \notin DOMAIN registry THEN <<>>
    ELSE CheckRules(registry[language], file)

-----------------------------------------------------------------------------
(* The analyzer: ParseFile, Analyzer.Analyze and the end of runAnalysis.   *)
(* A disk maps a path to [Readable, Raw]: whether os.Open succeeds and the *)
(* bytes of the file.                                                      *)
(***************************************************************************)
\* strings.ToLower(filepath.Ext(path)): from the last "." of the last element
LowerExt(path) ==
    LET dots    == {i \in 1..Len(path) : path[i] = "."}
        slashes == {i \in 1..Len(path) : path[i] = "/"}
    IN  IF dots = {} THEN <<>>
        ELSE IF slashes # {} /\ Max(slashes) > Max(dots) THEN <<>>
        ELSE ToLower(SubSeq(path, Max(dots), Len(path)))

\* Analyzer.isSupportedFile
isSupportedFile(path) ==
    LowerExt(path) \in { <<".", "j", "a", "v", "a">>, <<".", "j", "s">>, <<".", "j", "s", "x">>, <<".", "t", "s">>, <<".", "t", "s", "x">>, <<".", "h", "t", "m", "l">>,
                         <<".", "h", "t", "m">>, <<".", "c", "s", "s">>, <<".", "s", "c", "s", "s">>, <<".", "l", "e", "s", "s">> }

\* Analyzer.detectLanguage
detectLanguage(path) ==
    LET ext == LowerExt(path)
    IN  CASE ext = <<".", "j", "a", "v", "a">>                        -> "java"
          [] ext \in { <<".", "j", "s">>, <<".", "j", "s", "x">> }          -> "javascript"
          [] ext \in { <<".", "t", "s">>, <<".", "t", "s", "x">> }          -> "typescript"
          [] ext \in { <<".", "h", "t", "m", "l">>, <<".", "h", "t", "m">> }        -> "html"
          [] ext \in { <<".", "c", "s", "s">>, <<".", "s", "c", "s", "s">>, <<".", "l", "e", "s", "s">> } -> "css"
          [] OTHER                                  -> "unknown"

\* the dynamic type of ParsedFile.AST that ParseFile sets for a language
ASTKindOf(language) ==
    CASE language = "java"                         -> "JavaClass"
      [] language \in {"javascript", "typescript"} -> "JSFunction"
      [] language \in {"html", "css"}              -> "map"
      [] OTHER                                     -> "nil"

\* parser.ParseFile on a file that can be read: no language parser returns
\* an error
ParsedFileOf(path, raw, language) ==
    LET text == readFile(raw)
    IN  [ Path      |-> path,
          Language  |-> language,
          Content   |-> text,
          Lines     |-> FileLines(text),
          ASTKind   |-> ASTKindOf(language),
          JavaClass |-> IF language = "java" THEN parseJava(text) ELSE <<>> ]

\* Analyzer.analyzeFile on a file that can be read: the findings of
\* CheckFile, each with File set to the path (lines 259-262)
analyzeFile(registry, disk, path) ==
    CHOOSE out \in
        { [i \in 1..Len(found) |-> [found[i] EXCEPT !.File = path]] :
            found \in { CheckFile(registry, file, detectLanguage(path)) :
                file \in {ParsedFileOf(path, disk[path].Raw, detectLanguage(path))} } } : TRUE

\* CountMap that sets m[k] = 1 instead of counting
CountMapOnce(keys) ==
    [k \in {keys[i] : i \in DOMAIN keys} |-> 1]

\* a Go map of ints after m[k]++ has run once for every element k of keys
CountMap(keys) ==
    [k \in {keys[i] : i \in DOMAIN keys} |->
        Cardinality({i \in DOMAIN keys : keys[i] = k})]

\* m[k] of a Go map of ints: zero for a missing key
MapGet(m, k) == IF k \in DOMAIN m THEN m[k] ELSE 0

\* the loop of Analyze that stops at the first file that fails
RECURSIVE AnalyzeLoopStopOnError(_, _, _)
AnalyzeLoopStopOnError(registry, disk, paths) ==
    IF paths = <<>> THEN [Issues |-> <<>>, Languages |-> <<>>, Warnings |-> <<>>]
    ELSE IF ~disk[Head(paths)].Readable
         THEN [Issues |-> <<>>, Languages |-> <<>>, Warnings |-> <<Head(paths)>>]
         ELSE [AnalyzeLoopStopOnError(registry, disk, Tail(paths)) EXCEPT
                  !.Issues = analyzeFile(registry, disk, Head(paths)) \o @,
                  !.Languages = <<detectLanguage(Head(paths))>> \o @]

\* the loop of Analyze over the collected files (lines 138-151): the
\* findings appended, the language counted for each file that was analysed,
\* and the paths a warning was printed for
RECURSIVE AnalyzeLoop(_, _, _)
AnalyzeLoop(registry, disk, paths) ==
    IF paths = <<>> THEN [Issues |-> <<>>, Languages |-> <<>>, Warnings |-> <<>>]
    ELSE IF ~disk[Head(paths)].Readable
         THEN [AnalyzeLoop(registry, disk, Tail(paths)) EXCEPT
                  !.Warnings = <<Head(paths)>> \o @]
         ELSE [AnalyzeLoop(registry, disk, Tail(paths)) EXCEPT
                  !.Issues = analyzeFile(registry, disk, Head(paths)) \o @,
                  !.Languages = <<detectLanguage(Head(paths))>> \o @]

\* Analyzer.Analyze when collectFiles succeeds: the result and the warnings;
\* the summary loop (lines 153-158) counts every finding once by severity
\* and once by category
Analyze(registry, disk, walk) ==
    LET collected == SelectSeq(walk, isSupportedFile)
        summary(acc) == [TotalFiles    |-> Len(collected),
                         TotalIssues   |-> Len(acc.Issues),
                         SeverityCount |-> CountMap([i \in 1..Len(acc.Issues) |-> acc.Issues[i].Severity]),
                         CategoryCount |-> CountMap([i \in 1..Len(acc.Issues) |-> acc.Issues[i].Category]),
                         LanguageCount |-> CountMap(acc.Languages)]
    IN  CHOOSE r \in
            { [Summary |-> summary(acc), Issues |-> acc.Issues, Warnings |-> acc.Warnings] :
                acc \in {AnalyzeLoop(registry, disk, collected)} } : TRUE

\* AnalysisResult.HasCriticalIssues that looks for High
HasHighIssues(r) == MapGet(r.Summary.SeverityCount, SeverityHigh) > 0

\* AnalysisResult.HasCriticalIssues (types.go:42-45)
HasCriticalIssues(r) == MapGet(r.Summary.SeverityCount, SeverityCritical) > 0

-----------------------------------------------------------------------------
(* SpecRun: runAnalysis.  One of a few configuration files is loaded and   *)
(* filtered by --min-severity, the engine is built, up to MaxFiles files   *)
(* lie under the target path, Analyze runs over them and the process       *)
(* exits.  A caller of the library may instead give one parsed file and a  *)
(* language of its choice to Engine.CheckFile.                             *)
(***************************************************************************)
MaxFiles == 2

RuleSystemOut(severity, enabled) ==
    [ID |-> "java-system-out", Severity |-> severity,
     Category |-> "security", Enabled |-> enabled]

RuleConventions(severity, enabled) ==
    [ID |-> "java-coding-conventions", Severity |-> severity,
     Category |-> "style", Enabled |-> enabled]

RuleConsoleLog(severity, enabled) ==
    [ID |-> "js-console-log", Severity |-> severity,
     Category |-> "performance", Enabled |-> enabled]

\* the configuration files a run is started with
RunYamls ==
    { << [Language |-> "java",
          Rules |-> << RuleSystemOut(<<"c", "r", "i", "t", "i", "c", "a", "l">>, "true"),
                       RuleConventions(<<"h", "i", "g", "h">>, "absent") >>],
         [Language |-> "javascript",
          Rules |-> << RuleConsoleLog(<<"m", "e", "d", "i", "u", "m">>, "true") >>] >>,
      << [Language |-> "java",
          Rules |-> << RuleConventions(<<"H", "i", "g", "h">>, "true"),
                       RuleSystemOut(<<"l", "o", "w">>, "true") >>] >>,
      << [Language |-> "java",
          Rules |-> << [ID |-> "java-sytem-out", Severity |-> <<"c", "r", "i", "t", "i", "c", "a", "l">>,
                        Category |-> "security", Enabled |-> "true"],
                       RuleSystemOut(<<"m", "e", "d", "i", "u", "m">>, "true") >>] >>,
      << [Language |-> "javascript",
          Rules |-> << RuleConsoleLog(<<"c", "r", "i", "t", "i", "c", "a", "l">>, "true") >>] >> }

PathOk      == <<"O", "k", ".", "j", "a", "v", "a">>
PathWide    == <<"w", "i", "d", "e", ".", "J", "A", "V", "A">>
PathBadName == <<"b", "a", "d", "_", "n", "a", "m", "e", ".", "j", "a", "v", "a">>
PathGone    == <<"g", "o", "n", "e", ".", "j", "a", "v", "a">>
PathApp     == <<"a", "p", "p", ".", "j", "s">>
PathNotes   == <<"n", "o", "t", "e", "s", ".", "t", "x", "t">>

\* the files of the target directory
RunDisk ==
    [path \in {PathOk, PathWide, PathBadName, PathGone, PathApp, PathNotes} |->
        CASE path = PathOk ->
               [Readable |-> TRUE,
                Raw |-> <<"p", "u", "b", "l", "i", "c", " ", "c", "l", "a", "s", "s", " ", "O", "k", " ", "{", "\n", " ", "v", "o", "i", "d", " ", "r", "u", "n", "(", ")", " ", "{", "\n", " ", " ", "S", "y", "s", "t", "e", "m", ".", "o", "u", "t", ".", "p", "r", "i", "n", "t", "l", "n", "(", "1", ")", ";", "\n", " ", "}", "\n", "}", "\n">>]
          [] path = PathWide ->
               [Readable |-> TRUE,
                Raw |-> <<"p", "u", "b", "l", "i", "c", " ", "c", "l", "a", "s", "s", " ", "W", "i", "d", "e", " ", "{", "\n", " ", "i", "n", "t", " ", "t", " ", "=", " ">> \o Repeat(<<"1">>, 115) \o <<";", "\n", "}">>]
          [] path = PathBadName ->
               [Readable |-> TRUE,
                Raw |-> <<"c", "l", "a", "s", "s", " ", "b", "a", "d", "_", "n", "a", "m", "e", " ", "{", "\n", " ", "@", "R", "e", "s", "o", "u", "r", "c", "e", "\n", " ", "A", " ", "a", ";", "\n", " ", "@", "A", "u", "t", "o", "w", "i", "r", "e", "d", "\n", " ", "B", " ", "b", ";", "\n", " ", "v", "o", "i", "d", " ", "l", "o", "g", "(", ")", " ", "{", "\n", " ", " ", "S", "y", "s", "t", "e", "m", ".", "o", "u", "t", ".", "p", "r", "i", "n", "t", "(", "a", ")", ";", "\n", " ", "}", "\n", "}", "\n">>]
          [] path = PathGone ->
               [Readable |-> FALSE, Raw |-> <<>>]
          [] path = PathApp ->
               [Readable |-> TRUE,
                Raw |-> <<"c", "o", "n", "s", "o", "l", "e", ".", "l", "o", "g", "(", "1", ")", ";", "\n", "f", "u", "n", "c", "t", "i", "o", "n", " ", "f", "(", ")", " ", "{", "\n", " ", "c", "o", "n", "s", "o", "l", "e", ".", "w", "a", "r", "n", "(", "2", ")", ";", "\n", "}", "\n">>]
          [] path = PathNotes ->
               [Readable |-> TRUE, Raw |-> <<"S", "y", "s", "t", "e", "m", ".", "o", "u", "t", ".", "p", "r", "i", "n", "t", "l", "n", "\n">>]]

\* the languages a caller passes to Engine.CheckFile
CallerLanguages == {"java", "javascript", "typescript", "css", "python"}

InitRun ==
    /\ pc = "config"
    /\ content = <<>>
    /\ typed = 0
    /\ yaml \in RunYamls
    /\ cfg = <<>> /\ cfgOrigin = "none" /\ minSeverity = <<>> /\ rulesFilter = <<>>
    /\ engine = <<>>
    /\ IdleBody /\ IdleAnn /\ IdleRule /\ IdleDup /\ IdleRun

\* a file is found under the target path; a path occurs once in a walk
AddFile ==
    /\ pc = "engine"
    /\ Len(files) < MaxFiles
    /\ \E path \in DOMAIN RunDisk :
          /\ \A i \in 1..Len(files) : files[i] # path
          /\ files' = Append(files, path)
    /\ UNCHANGED <<pc, content, typed, checkedFile, checkedLanguage, result,
                   warnings, exitStatus, bodyVars, annVars, ruleVars, dupVars, cfgVars>>

\* engine.CheckFile(file, language) called with a file parsed as its own
\* language and any language argument
CallCheckFile ==
    /\ pc = "engine"
    /\ files = <<>>
    /\ pc' = "checked"
    /\ \E path \in {p \in DOMAIN RunDisk : RunDisk[p].Readable}, language \in CallerLanguages :
          /\ checkedFile' = ParsedFileOf(path, RunDisk[path].Raw, detectLanguage(path))
          /\ checkedLanguage' = language
          /\ issues' = CheckFile(engine, checkedFile', language)
    /\ UNCHANGED <<content, typed, files, result, warnings, exitStatus, astOrigin,
                   javaClass, jsFunctions, fileLines, bodyVars, annVars, dupVars, cfgVars>>

\* analyzer.Analyze(targetPath) on a target that can be walked
RunAnalyze ==
    /\ pc = "engine"
    /\ pc' = "analyzed"
    /\ \E r \in {Analyze(engine, RunDisk, files)} :
           /\ result' = [Summary |-> r.Summary, Issues |-> r.Issues]
           /\ warnings' = r.Warnings
    /\ UNCHANGED <<content, typed, files, checkedFile, checkedLanguage, exitStatus,
                   bodyVars, annVars, ruleVars, dupVars, cfgVars>>

\* analyzer.Analyze(targetPath) on a target that cannot be walked:
\* collectFiles returns an error and runAnalysis exits with status 1
AnalyzeFails ==
    /\ pc = "engine"
    /\ files = <<>>
    /\ pc' = "analysis failed"
    /\ exitStatus' = 1
    /\ UNCHANGED <<content, typed, files, checkedFile, checkedLanguage, result,
                   warnings, bodyVars, annVars, ruleVars, dupVars, cfgVars>>

\* steps 4 and 5 of runAnalysis: the report is written, or not, and the
\* process exits
FinishRun ==
    /\ pc = "analyzed"
    /\ \E reported \in BOOLEAN :
          IF reported
          THEN /\ pc' = "exited"
               /\ exitStatus' = IF HasCriticalIssues(result) THEN 1 ELSE 0
          ELSE /\ pc' = "report failed"
               /\ exitStatus' = 1
    /\ UNCHANGED <<content, typed, files, checkedFile, checkedLanguage, result,
                   warnings, bodyVars, annVars, ruleVars, dupVars, cfgVars>>

NextRun ==
    \/ ReadConfigFile
    \/ FilterRules
    \/ CreateEngine
    \/ AddFile
    \/ CallCheckFile
    \/ RunAnalyze
    \/ AnalyzeFails
    \/ FinishRun

SpecRun == InitRun /\ [][NextRun]_vars

\* Analyze has returned a result
Analyzed == pc \in {"analyzed", "exited", "report failed"}

\* C12: after FilterBySeverity(min) has been applied to the configuration,
\* every finding in the AnalysisResult of the run has severity >= min.
C12_FindingsAtLeastMin ==
    (Analyzed /\ minSeverity # <<>>) =>
        \A i \in 1..Len(result.Issues) :
            result.Issues[i].Severity >= ParseSeverity(minSeverity)

\* the number of findings the rules before index k report on file
RECURSIVE FindingsBefore(_, _, _)
FindingsBefore(rules, file, k) ==
    IF k <= 1 THEN 0
    ELSE FindingsBefore(rules, file, k - 1) + Len(RuleCheck(rules[k - 1], file))

\* the rules whose Check starts with a type assertion on file.AST for
\* *parser.JavaClass
AssertsJavaClass(rule) == rule.Ctor = "NewCodingConventionRule"

\* C13: Engine.CheckFile(file, language) returns the findings of the rules
\* registered for the language, each rule run once on the same file, all
\* findings of rule k before those of rule k+1; for a language without
\* registry entry it returns the empty sequence; a rule whose type assertion on
\* file.AST fails contributes nothing and the call still returns.
C13_ConcatenationInOrder ==
    pc = "checked" =>
        IF checkedLanguage \notin DOMAIN engine THEN issues = <<>>
        ELSE LET rules == engine[checkedLanguage]
                 n     == Len(rules)
             IN  /\ Len(issues) = FindingsBefore(rules, checkedFile, n + 1)
                 /\ \A k \in 1..n :
                       LET out == RuleCheck(rules[k], checkedFile)
                           off == FindingsBefore(rules, checkedFile, k)
                       IN  /\ \A j \in 1..Len(out) : issues[off + j] = out[j]
                           /\ (AssertsJavaClass(rules[k])
                               /\ checkedFile.ASTKind # "JavaClass") => out = <<>>

\* CheckFile was called for "java" on a file that is no Java file, with the
\* convention rule registered before the System.out rule: the first
\* contributes nothing, the second its finding
C13_Witness ==
    /\ pc = "checked"
    /\ checkedLanguage = "java"
    /\ checkedFile.Path = PathNotes
    /\ checkedFile.ASTKind = "nil"
    /\ Len(engine["java"]) = 2
    /\ engine["java"][1].Ctor = "NewCodingConventionRule"
    /\ engine["java"][2].Ctor = "NewSystemOutRule"
    /\ Len(issues) = 1
    /\ issues[1].RuleID = "java-system-out"

\* the files Analyze collected, and those of them that could be read
Collected == SelectSeq(files, isSupportedFile)

IsReadable(path) == RunDisk[path].Readable

IsUnreadable(path) == ~RunDisk[path].Readable

\* C15: when reading a collected file fails, Analyze returns a result all the
\* same: the file contributes no findings and no language count, a warning
\* names it, and the findings of every other collected file are in the
\* result, in the order of the files.
C15_FailedFileSkipped ==
    Analyzed =>
        LET good == SelectSeq(Collected, IsReadable)
            count == result.Summary.LanguageCount
        IN  /\ result.Issues =
                  Concat([i \in 1..Len(good) |-> analyzeFile(engine, RunDisk, good[i])])
            /\ warnings = SelectSeq(Collected, IsUnreadable)
            /\ DOMAIN count = {detectLanguage(good[i]) : i \in 1..Len(good)}
            /\ \A l \in DOMAIN count :
                  count[l] = Cardinality({i \in 1..Len(good) : detectLanguage(good[i]) = l})
            /\ result.Summary.TotalFiles = Len(Collected)

\* Analyze ran over a file that cannot be opened followed by a Java file with
\* a System.out call: one warning, and the finding of the second file
C15_Witness ==
    /\ Analyzed
    /\ files = <<PathGone, PathOk>>
    /\ warnings = <<PathGone>>
    /\ Len(result.Issues) >= 1
    /\ \A i \in 1..Len(result.Issues) : result.Issues[i].File = PathOk
    /\ MapGet(result.Summary.LanguageCount, "java") = 1

\* C16: HasCriticalIssues() is true iff the Issues of the result hold a
\* finding of severity Critical, and a run whose configuration, analysis and
\* report succeeded exits with a non-zero status exactly in that case.
C16_ExitStatus ==
    LET critical == \E i \in 1..Len(result.Issues) :
                        result.Issues[i].Severity = SeverityCritical
    IN  /\ Analyzed => (HasCriticalIssues(result) <=> critical)
        /\ pc = "exited" => (exitStatus # 0 <=> critical)

\* a run with a Critical finding next to a lower one has exited with status 1
C16_Witness ==
    /\ pc = "exited"
    /\ exitStatus = 1
    /\ \E i \in 1..Len(result.Issues) : result.Issues[i].Severity = SeverityCritical
    /\ \E i \in 1..Len(result.Issues) : result.Issues[i].Severity < SeverityCritical

\* ---------------------------------------------------------------------
\* The documented processOrder example under calculateComplexity
\* ---------------------------------------------------------------------

\* the example of RULE_ANALYSIS.md, one element per line; a rune outside ASCII
\* (the cross mark and the Korean words of the comments) is written Hangul
ProcessOrderExample == <<
    \* public class OrderProcessor {
    << "p", "u", "b", "l", "i", "c", " ", "c", "l", "a", "s", "s", " ", "O", "r",
       "d", "e", "r", "P", "r", "o", "c", "e", "s", "s", "o", "r", " ", "{",
       "\n" >>,
    \*     // U+274C U+BB38U+C81C: U+C21CU+D658 U+BCF5U+C7A1U+B3C4 U+B192U+C7 ...
    << " ", " ", " ", " ", "/", "/", " ", Hangul, " ", Hangul, Hangul, ":", " ",
       Hangul, Hangul, " ", Hangul, Hangul, Hangul, " ", Hangul, Hangul, " ", "(",
       "1", "1", "+", ")", "\n" >>,
    \*     public void processOrder(Order order) {
    << " ", " ", " ", " ", "p", "u", "b", "l", "i", "c", " ", "v", "o", "i", "d",
       " ", "p", "r", "o", "c", "e", "s", "s", "O", "r", "d", "e", "r", "(", "O",
       "r", "d", "e", "r", " ", "o", "r", "d", "e", "r", ")", " ", "{", "\n" >>,
    \*         if (order != null) {                    // +1
    << " ", " ", " ", " ", " ", " ", " ", " ", "i", "f", " ", "(", "o", "r", "d",
       "e", "r", " ", "!", "=", " ", "n", "u", "l", "l", ")", " ", "{", " ", " ",
       " ", " ", " ", " ", " ", " ", " ", " ", " ", " ", " ", " ", " ", " ", " ",
       " ", " ", " ", "/", "/", " ", "+", "1", "\n" >>,
    \*             if (order.getStatus() == PENDING) { // +2
    << " ", " ", " ", " ", " ", " ", " ", " ", " ", " ", " ", " ", "i", "f", " ",
       "(", "o", "r", "d", "e", "r", ".", "g", "e", "t", "S", "t", "a", "t", "u",
       "s", "(", ")", " ", "=", "=", " ", "P", "E", "N", "D", "I", "N", "G", ")",
       " ", "{", " ", "/", "/", " ", "+", "2", "\n" >>,
    \*                 if (order.getAmount() > 100) {  // +3
    << " ", " ", " ", " ", " ", " ", " ", " ", " ", " ", " ", " ", " ", " ", " ",
       " ", "i", "f", " ", "(", "o", "r", "d", "e", "r", ".", "g", "e", "t", "A",
       "m", "o", "u", "n", "t", "(", ")", " ", ">", " ", "1", "0", "0", ")", " ",
       "{", " ", " ", "/", "/", " ", "+", "3", "\n" >>,
    \*                     if (order.getCustomer().isPremium()) { // +4
    << " ", " ", " ", " ", " ", " ", " ", " ", " ", " ", " ", " ", " ", " ", " ",
       " ", " ", " ", " ", " ", "i", "f", " ", "(", "o", "r", "d", "e", "r", ".",
       "g", "e", "t", "C", "u", "s", "t", "o", "m", "e", "r", "(", ")", ".", "i",
       "s", "P", "r", "e", "m", "i", "u", "m", "(", ")", ")", " ", "{", " ", "/",
       "/", " ", "+", "4", "\n" >>,
    \*                         // U+D504U+B9ACU+BBF8U+C5C4 U+ACE0U+AC1D U+CC9 ...
    << " ", " ", " ", " ", " ", " ", " ", " ", " ", " ", " ", " ", " ", " ", " ",
       " ", " ", " ", " ", " ", " ", " ", " ", " ", "/", "/", " ", Hangul, Hangul,
       Hangul, Hangul, " ", Hangul, Hangul, " ", Hangul, Hangul, "\n" >>,
    \*                     } else {                    // +5
    << " ", " ", " ", " ", " ", " ", " ", " ", " ", " ", " ", " ", " ", " ", " ",
       " ", " ", " ", " ", " ", "}", " ", "e", "l", "s", "e", " ", "{", " ", " ",
       " ", " ", " ", " ", " ", " ", " ", " ", " ", " ", " ", " ", " ", " ", " ",
       " ", " ", " ", "/", "/", " ", "+", "5", "\n" >>,
    \*                         // U+C77CU+BC18 U+ACE0U+AC1D U+CC98U+B9AC
    << " ", " ", " ", " ", " ", " ", " ", " ", " ", " ", " ", " ", " ", " ", " ",
       " ", " ", " ", " ", " ", " ", " ", " ", " ", "/", "/", " ", Hangul, Hangul,
       " ", Hangul, Hangul, " ", Hangul, Hangul, "\n" >>,
    \*                     }
    << " ", " ", " ", " ", " ", " ", " ", " ", " ", " ", " ", " ", " ", " ", " ",
       " ", " ", " ", " ", " ", "}", "\n" >>,
    \*                 } else if (order.getAmount() > 50) { // +6
    << " ", " ", " ", " ", " ", " ", " ", " ", " ", " ", " ", " ", " ", " ", " ",
       " ", "}", " ", "e", "l", "s", "e", " ", "i", "f", " ", "(", "o", "r", "d",
       "e", "r", ".", "g", "e", "t", "A", "m", "o", "u", "n", "t", "(", ")", " ",
       ">", " ", "5", "0", ")", " ", "{", " ", "/", "/", " ", "+", "6", "\n" >>,
    \*                     // U+C911U+AC04 U+AE08U+C561 U+CC98U+B9AC
    << " ", " ", " ", " ", " ", " ", " ", " ", " ", " ", " ", " ", " ", " ", " ",
       " ", " ", " ", " ", " ", "/", "/", " ", Hangul, Hangul, " ", Hangul, Hangul,
       " ", Hangul, Hangul, "\n" >>,
    \*                 } else {                        // +7
    << " ", " ", " ", " ", " ", " ", " ", " ", " ", " ", " ", " ", " ", " ", " ",
       " ", "}", " ", "e", "l", "s", "e", " ", "{", " ", " ", " ", " ", " ", " ",
       " ", " ", " ", " ", " ", " ", " ", " ", " ", " ", " ", " ", " ", " ", " ",
       " ", " ", " ", "/", "/", " ", "+", "7", "\n" >>,
    \*                     // U+C18CU+C561 U+CC98U+B9AC
    << " ", " ", " ", " ", " ", " ", " ", " ", " ", " ", " ", " ", " ", " ", " ",
       " ", " ", " ", " ", " ", "/", "/", " ", Hangul, Hangul, " ", Hangul, Hangul,
       "\n" >>,
    \*                 }
    << " ", " ", " ", " ", " ", " ", " ", " ", " ", " ", " ", " ", " ", " ", " ",
       " ", "}", "\n" >>,
    \*             } else if (order.getStatus() == PROCESSING) { // +8
    << " ", " ", " ", " ", " ", " ", " ", " ", " ", " ", " ", " ", "}", " ", "e",
       "l", "s", "e", " ", "i", "f", " ", "(", "o", "r", "d", "e", "r", ".", "g",
       "e", "t", "S", "t", "a", "t", "u", "s", "(", ")", " ", "=", "=", " ", "P",
       "R", "O", "C", "E", "S", "S", "I", "N", "G", ")", " ", "{", " ", "/", "/",
       " ", "+", "8", "\n" >>,
    \*                 // U+CC98U+B9AC U+C911 U+B85CU+C9C1
    << " ", " ", " ", " ", " ", " ", " ", " ", " ", " ", " ", " ", " ", " ", " ",
       " ", "/", "/", " ", Hangul, Hangul, " ", Hangul, " ", Hangul, Hangul,
       "\n" >>,
    \*             } else if (order.getStatus() == COMPLETED) {  // +9
    << " ", " ", " ", " ", " ", " ", " ", " ", " ", " ", " ", " ", "}", " ", "e",
       "l", "s", "e", " ", "i", "f", " ", "(", "o", "r", "d", "e", "r", ".", "g",
       "e", "t", "S", "t", "a", "t", "u", "s", "(", ")", " ", "=", "=", " ", "C",
       "O", "M", "P", "L", "E", "T", "E", "D", ")", " ", "{", " ", " ", "/", "/",
       " ", "+", "9", "\n" >>,
    \*                 // U+C644U+B8CC U+B85CU+C9C1
    << " ", " ", " ", " ", " ", " ", " ", " ", " ", " ", " ", " ", " ", " ", " ",
       " ", "/", "/", " ", Hangul, Hangul, " ", Hangul, Hangul, "\n" >>,
    \*             } else {                            // +10
    << " ", " ", " ", " ", " ", " ", " ", " ", " ", " ", " ", " ", "}", " ", "e",
       "l", "s", "e", " ", "{", " ", " ", " ", " ", " ", " ", " ", " ", " ", " ",
       " ", " ", " ", " ", " ", " ", " ", " ", " ", " ", " ", " ", " ", " ", " ",
       " ", " ", " ", "/", "/", " ", "+", "1", "0", "\n" >>,
    \*                 // U+AE30U+D0C0 U+C0C1U+D0DC U+CC98U+B9AC
    << " ", " ", " ", " ", " ", " ", " ", " ", " ", " ", " ", " ", " ", " ", " ",
       " ", "/", "/", " ", Hangul, Hangul, " ", Hangul, Hangul, " ", Hangul,
       Hangul, "\n" >>,
    \*             }
    << " ", " ", " ", " ", " ", " ", " ", " ", " ", " ", " ", " ", "}", "\n" >>,
    \*         }
    << " ", " ", " ", " ", " ", " ", " ", " ", "}", "\n" >>,
    \*         // U+BCF5U+C7A1U+B3C4: 11
    << " ", " ", " ", " ", " ", " ", " ", " ", "/", "/", " ", Hangul, Hangul,
       Hangul, ":", " ", "1", "1", "\n" >>,
    \*     }
    << " ", " ", " ", " ", "}", "\n" >>,
    \* }
    << "}", "\n" >>
    >>

\* a line that holds nothing but a // comment
IsCommentOnlyLine(line) == HasPrefix(TrimSpace(line), <<"/", "/">>)

\* the example file is empty before its first line is written
InitExample ==
    /\ pc = "write"
    /\ content = <<>>
    /\ typed = 0
    /\ IdleBody /\ IdleAnn /\ IdleRule /\ IdleDup /\ IdleCfg /\ IdleRun

\* the next line of the example is written as documented
WriteExampleLine ==
    /\ pc = "write"
    /\ typed < Len(ProcessOrderExample)
    /\ content' = content \o ProcessOrderExample[typed + 1]
    /\ typed' = typed + 1
    /\ UNCHANGED <<pc, bodyVars, annVars, ruleVars, dupVars, cfgVars, runVars>>

\* how many comment lines a copy of the example may leave out
MaxOmitted == 2

\* the number of lines written so far
LinesWritten(s) == Cardinality({i \in 1..Len(s) : s[i] = "\n"})

\* the next line of the example, a comment of its own, is left out
OmitCommentLine ==
    /\ pc = "write"
    /\ typed < Len(ProcessOrderExample)
    /\ typed - LinesWritten(content) < MaxOmitted
    /\ IsCommentOnlyLine(ProcessOrderExample[typed + 1])
    /\ typed' = typed + 1
    /\ UNCHANGED <<pc, content, bodyVars, annVars, ruleVars, dupVars, cfgVars, runVars>>

\* r.calculateComplexity(file, method) for the method processOrder
MeasureExample ==
    /\ pc = "write"
    /\ typed = Len(ProcessOrderExample)
    /\ extractMethodBody(content, <<"p", "r", "o", "c", "e", "s", "s", "O", "r", "d", "e", "r">>) # Panic
    /\ cyclomatic' = calculateComplexity(content, <<"p", "r", "o", "c", "e", "s", "s", "O", "r", "d", "e", "r">>)
    /\ pc' = "measured"
    /\ UNCHANGED <<content, typed, methodBody, methodLength, annVars, ruleVars, dupVars, cfgVars, runVars>>

NextExample ==
    \/ WriteExampleLine
    \/ OmitCommentLine
    \/ MeasureExample

SpecExample == InitExample /\ [][NextExample]_vars

\* C17: each if, each else if and each else of the documented processOrder
\* example (4 if, 3 else if, 3 else) adds exactly 1 to the base of 1, so the
\* complexity computed for the example is 11
C17_ExampleIsEleven ==
    pc = "measured" => cyclomatic = 11

\* ---------------------------------------------------------------------
\* MethodLengthRule (java_rules.go lines 483-545)
\* ---------------------------------------------------------------------

\* the value of a non-empty string of decimal digits
DecimalDigits == << "0", "1", "2", "3", "4", "5", "6", "7", "8", "9" >>

RECURSIVE DigitsValue(_)
DigitsValue(str) ==
    LET last == CHOOSE d \in 0..9 : DecimalDigits[d + 1] = str[Len(str)]
    IN  IF Len(str) = 1 THEN last
        ELSE 10 * DigitsValue(SubSeq(str, 1, Len(str) - 1)) + last

\* strconv.Atoi: an optional sign followed by decimal digits; anything else
\* is an error
Atoi(str) ==
    LET signed == str # <<>> /\ str[1] \in {"+", "-"}
        digits == IF signed THEN Tail(str) ELSE str
        valid  == digits # <<>> /\ \A i \in 1..Len(digits) : digits[i] \in Digits
    IN  IF ~valid THEN [value |-> 0, err |-> TRUE]
        ELSE [value |-> IF signed /\ str[1] = "-"
                        THEN 0 - DigitsValue(digits) ELSE DigitsValue(digits),
              err   |-> FALSE]

\* line 537
DefaultMaxLines == 100

\* MethodLengthRule.getMaxLines; Custom is the map of the rule configuration
getMaxLines(rule) ==
    IF "max_lines" \in DOMAIN rule.config.Custom
          /\ ~Atoi(rule.config.Custom["max_lines"]).err
          /\ Atoi(rule.config.Custom["max_lines"]).value > 0
    THEN Atoi(rule.config.Custom["max_lines"]).value
    ELSE DefaultMaxLines

\* MethodLengthRule.calculateMethodLength: the leftmost match of
\* `(?s)` + QuoteMeta(name) + `\s*\([^)]*\)\s*\{.*?\}` ends at the first "}"
\* after the opening brace; the result is strings.Count(match, "\n")
calculateMethodLength(s, name) ==
    LET match == FindMethodIndex(s, name)
        close == IF match = <<>> THEN -1 ELSE IndexFrom(s, match[2], "}")
    IN  IF close = -1 THEN 0
        ELSE Cardinality({k \in match[1]..close : At(s, k) = "\n"})

\* line 505; the Korean format string reads
\* "the method is too long (%s: %d lines, threshold: %d)"
MethodLengthMessage(methodName, length, maxLines) ==
    <<"t", "h", "e", " ", "m", "e", "t", "h", "o", "d", " ", "i", "s", " ", "t", "o", "o", " ", "l", "o", "n", "g", " ", "(">> \o methodName \o <<":", " ">> \o Itoa(length)
        \o <<" ", "l", "i", "n", "e", "s", ",", " ", "t", "h", "r", "e", "s", "h", "o", "l", "d", ":", " ">> \o Itoa(maxLines) \o <<")">>

\* MethodLengthRule.Check (lines 483-514)
MethodLengthCheck(rule, file) ==
    IF file.ASTKind # "JavaClass" THEN <<>>
    ELSE LET long(method) ==
                 calculateMethodLength(file.Content, method.Name) > getMaxLines(rule)
             methods == SelectSeq(file.JavaClass.Methods, long)
         IN  [n \in 1..Len(methods) |->
                NewIssue(rule, file, methods[n].Line, methods[n].Column,
                         RuleSeverity(rule),
                         MethodLengthMessage(methods[n].Name,
                             calculateMethodLength(file.Content, methods[n].Name),
                             getMaxLines(rule)),
                         getCodeSnippet(file.Lines, methods[n].Line))]

\* ---------------------------------------------------------------------
\* Specification SpecLength: a class with the method run is written, its
\* body made of plain statements and if statements with and without a
\* block; the file is parsed and MethodLengthRule.Check runs on it.
\* ---------------------------------------------------------------------

MaxLengthStmts == 3

\* "  if (a) {\n   b();\n  }\n"
StmtIfBlock == <<" ", " ", "i", "f", " ", "(", "a", ")", " ", "{", "\n", " ", " ", " ", "b", "(", ")", ";", "\n", " ", " ", "}", "\n">>

LengthStatements == {StmtLog, StmtIf, StmtIfBlock}

\* the Custom maps of the rule configuration: no max_lines key, or one whose
\* value is "2", "0" or "many"
LengthCustoms ==
    { [x \in {} |-> <<>>] }
        \cup { [x \in {"max_lines"} |-> str] : str \in { <<"2">>, <<"0">>, <<"m", "a", "n", "y">> } }

LengthRule(custom) ==
    [Ctor   |-> "NewMethodLengthRule",
     config |-> [ID |-> "java-method-length", Severity |-> <<"m", "e", "d", "i", "u", "m">>,
                 Category |-> "maintainability", Enabled |-> TRUE,
                 Custom |-> custom]]

InitLength ==
    /\ pc = "write"
    /\ content = HeaderPlain \o SigRun
    /\ typed = 0
    /\ IdleBody /\ IdleAnn /\ IdleRule /\ IdleDup /\ IdleCfg /\ IdleRun

AddLengthStatement(statement) ==
    /\ pc = "write"
    /\ typed < MaxLengthStmts
    /\ content' = content \o statement
    /\ typed' = typed + 1
    /\ UNCHANGED <<pc, bodyVars, annVars, ruleVars, dupVars, cfgVars, runVars>>

\* MethodLengthRule.Check(file); methodLength keeps what
\* calculateMethodLength returned for the method run
CheckMethodLength(custom) ==
    /\ pc = "parsed"
    /\ issues' = MethodLengthCheck(LengthRule(custom),
                    [Path |-> <<"S", ".", "j", "a", "v", "a">>, Language |-> "java", Content |-> content,
                     Lines |-> fileLines, ASTKind |-> "JavaClass",
                     JavaClass |-> javaClass])
    /\ methodLength' = calculateMethodLength(content, <<"r", "u", "n">>)
    /\ pc' = "checked"
    /\ UNCHANGED <<content, typed, methodBody, cyclomatic, astOrigin, javaClass, jsFunctions, fileLines, annVars, dupVars, cfgVars, runVars>>

NextLength ==
    \/ \E statement \in LengthStatements : AddLengthStatement(statement)
    \/ CloseFile
    \/ ParseFile
    \/ \E custom \in LengthCustoms : CheckMethodLength(custom)

SpecLength == InitLength /\ [][NextLength]_vars

\* the line breaks from the signature of the method to the brace that closes
\* it: from the name to the "}" that brings the brace depth back to zero
BalancedLength(s, name) ==
    LET match == FindMethodIndex(s, name)
        exit  == ScanBraces(s, match[2])
    IN  Cardinality({k \in match[1]..(exit[1] - 1) : At(s, k) = "\n"})

\* C18: the length MethodLengthRule computes for a method is the number of
\* line breaks from its signature to the closing brace that matches its
\* opening brace, so the lines inside and after a nested block are counted
C18_LengthIsBalanced ==
    pc = "checked" => methodLength = BalancedLength(content, <<"r", "u", "n">>)

\* a comment line: a // comment, or a line of a block comment, its opening
\* line and its closing line included
IsCommentLine(line) ==
    \/ HasPrefix(line, <<"/", "/">>)
    \/ HasPrefix(line, <<"/", "*">>)
    \/ HasPrefix(line, <<"*">>)

\* the scan as stated: from line i upwards, an annotation line is put in
\* front of acc, a blank line or a comment line is passed over, any other
\* line ends the scan
RECURSIVE StatedScan(_, _, _)
StatedScan(lines, i, acc) ==
    IF i < 1 THEN acc
    ELSE LET line == TrimSpace(lines[i])
         IN  IF HasPrefix(line, <<"@">>) THEN StatedScan(lines, i - 1, <<line>> \o acc)
             ELSE IF line = <<>> \/ IsCommentLine(line) THEN StatedScan(lines, i - 1, acc)
             ELSE acc

\* C19: extractAnnotations(content, beforePos) collects, in source order, the
\* annotation lines above beforePos up to the first line that is neither
\* blank nor a comment; the opening and the closing line of a Javadoc block
\* are comment lines and do not end the scan
C19_CommentsSkipped ==
    pc = "collected" =>
        annotations = StatedScan(SplitLines(Slice(content, 0, beforePos)),
                                 Len(SplitLines(Slice(content, 0, beforePos))), <<>>)

\* the four signals of a method body, as analyzeMethodComplexity sets them
SignalsOf(body) ==
    [ repositoryCalls    |-> repositoryCalls(body),
      conditionalLogic   |-> hasConditionalDataOperations(body),
      multipleOperations |-> hasMultipleDataOperations(body),
      externalCalls      |-> hasExternalSystemCalls(body) ]

\* the reasons of the signals that fire, in the fixed order of the four
FiredReasons(signals) ==
    LET fires(candidate) == candidate[1]
        fired == SelectSeq(
            << <<signals.repositoryCalls >= 2, ReasonRepositoryCalls(signals.repositoryCalls)>>,
               <<signals.conditionalLogic, ReasonConditional>>,
               <<signals.multipleOperations, ReasonMultipleOperations>>,
               <<signals.externalCalls /\ signals.repositoryCalls >= 1, ReasonExternal>> >>,
            fires)
    IN  [n \in 1..Len(fired) |-> fired[n][2]]

\* the methods TransactionalRule.Check analyses: those of a @Service class
\* that change data and carry no @Transactional
AnalysedMethods(class) ==
    IF ~hasServiceAnnotation(class) THEN <<>>
    ELSE LET analysed(method) == /\ isDataChangeMethod(method.Name)
                                 /\ ~hasTransactionalAnnotation(method.Annotations)
         IN  SelectSeq(class.Methods, analysed)

\* the messages expected for the analysed methods from index i on
RECURSIVE ExpectedTransactionalMessages(_, _, _)
ExpectedTransactionalMessages(s, methods, i) ==
    IF i > Len(methods) THEN <<>>
    ELSE LET reasons == FiredReasons(SignalsOf(extractMethodBody(s, methods[i].Name)))
         IN  (IF reasons = <<>> THEN <<>>
              ELSE << <<"m", "e", "t", "h", "o", "d", " ", "'">> \o methods[i].Name \o <<"'", " ", "n", "e", "e", "d", "s", " ", "@", "T", "r", "a", "n", "s", "a", "c", "t", "i", "o", "n", "a", "l", ":", " ">>
                        \o Join(reasons, <<",", " ">>) >>)
             \o ExpectedTransactionalMessages(s, methods, i + 1)

\* C20: a method requires a transaction iff at least one of the four signals
\* fires (two or more repository calls; a conditional data change; two or
\* more kinds of data operation; an external call together with at least one
\* repository call), and the reason of its finding is the comma-joined list
\* of the reasons of every signal that fired, in that order
C20_EveryFiredReason ==
    pc = "checked" =>
        [n \in 1..Len(issues) |-> issues[n].Message]
            = ExpectedTransactionalMessages(content, AnalysedMethods(javaClass), 1)

\* the method save makes two repository calls of two kinds: its finding
\* gives both reasons
C20_Witness ==
    /\ pc = "checked"
    /\ content = HeaderService \o SigSave \o StmtRepositorySave \o StmtMapperDelete \o FileEnd
    /\ Len(issues) = 1
    /\ issues[1].Message = <<"m", "e", "t", "h", "o", "d", " ", "'", "s", "a", "v", "e", "'", " ", "n", "e", "e", "d", "s", " ", "@", "T", "r", "a", "n", "s", "a", "c", "t", "i", "o", "n", "a", "l", ":", " ">>
                             \o ReasonRepositoryCalls(2) \o <<",", " ">> \o ReasonMultipleOperations

-----------------------------------------------------------------------------
(* C21: the three exemptions of TransactionalRule.Check and the number of  *)
(* findings of one method, on the files of SpecTx.                         *)

\* the findings of Check that stand at the declaration of the method
FindingsOf(method) == {n \in 1..Len(issues) : issues[n].Line = method.Line}

\* the method name has none of the nine data-mutation words, whatever the case
NoMutationWord(name) ==
    \A word \in dataChangePatterns :
        \A p \in 0..(Len(name) - Len(word)) :
            \E k \in 1..Len(word) : LowerOf(At(name, p + k - 1)) # word[k]

\* C21: TransactionalRule.Check emits no finding for a class without a
\* @Service annotation, none for a method that carries a @Transactional
\* annotation, none for a method whose name has none of the data-mutation
\* words in any case, and at most one finding for a method; every finding
\* stands at a method of the class
C21_ExemptNeverReported ==
    pc = "checked" =>
        /\ (\A i \in 1..Len(javaClass.Annotations) :
                ~Contains(javaClass.Annotations[i], <<"@", "S", "e", "r", "v", "i", "c", "e">>))
              => issues = <<>>
        /\ \A i \in 1..Len(javaClass.Methods) :
              LET method == javaClass.Methods[i]
              IN  /\ Cardinality(FindingsOf(method)) <= 1
                  /\ (\E a \in 1..Len(method.Annotations) :
                         Contains(method.Annotations[a], <<"@", "T", "r", "a", "n", "s", "a", "c", "t", "i", "o", "n", "a", "l">>))
                        => FindingsOf(method) = {}
                  /\ NoMutationWord(method.Name) => FindingsOf(method) = {}
        /\ \A n \in 1..Len(issues) :
              \E i \in 1..Len(javaClass.Methods) : n \in FindingsOf(javaClass.Methods[i])

\* the @Service class has the methods add and save, both with two
\* repository calls and no @Transactional: one finding for each
C21_Witness ==
    /\ pc = "checked"
    /\ content = HeaderService \o SigAddThenSave \o StmtRepositorySave \o StmtMapperDelete \o FileEnd
    /\ Len(javaClass.Methods) = 2
    /\ Len(issues) = 2
    /\ issues[1].Line # issues[2].Line

-----------------------------------------------------------------------------
(* DuplicateCodeRule.Check (java_rules.go:932-990): the catalog of four     *)
(* regular expressions, each reported when it matches three times or more, *)
(* followed by checkDuplicateBlocks.  A match is found as Go's regexp      *)
(* finds it: leftmost first, the next search starting where the match      *)
(* ended.  Offsets are rune offsets; lines and columns are taken from the  *)
(* byte offsets as the code takes them.                                    *)
(***************************************************************************)
\* line 966: a pattern is reported from this number of matches on
MinPatternMatches == 3

\* the catalog of lines 936-962; the descriptions are Korean in the source
duplicatePatterns ==
    << [ pattern     |-> "responseBody\\.put\\(.*?\\);",
         description |-> "the API response creation pattern is duplicated" ],
       [ pattern     |-> "cdService\\.selectCdList\\([^)]+\\)",
         description |-> "the code list lookup is repeated" ],
       [ pattern     |-> "if\\s*\\([^)]*==\\s*null[^)]*\\)\\s*\\{[^}]*throw[^}]*\\}",
         description |-> "the null check followed by throw is duplicated" ],
       [ pattern     |-> "logger\\.(info|debug|error)\\([^)]*\\);\\s*return",
         description |-> "the logging followed by return is repeated" ] >>

\* `responseBody\.put\(.*?\);` at offset p: the end of the match, -1 for no
\* match; `.` matches no "\n" and `.*?` stops at the first ");"
ResponsePutEnd(s, p) ==
    LET lit  == <<"r", "e", "s", "p", "o", "n", "s", "e", "B", "o", "d", "y", ".", "p", "u", "t", "(">>
        q    == p + Len(lit)
        ends == {e \in q..(Len(s) - 2) :
                    /\ HasLit(s, e, <<")", ";">>)
                    /\ \A j \in q..(e - 1) : At(s, j) # "\n"}
    IN  IF ~HasLit(s, p, lit) \/ ends = {} THEN -1 ELSE Min(ends) + 2

\* `cdService\.selectCdList\([^)]+\)` at offset p
SelectCdListEnd(s, p) ==
    LET lit   == <<"c", "d", "S", "e", "r", "v", "i", "c", "e", ".", "s", "e", "l", "e", "c", "t", "C", "d", "L", "i", "s", "t", "(">>
        q     == p + Len(lit)
        close == IndexFrom(s, q, ")")
    IN  IF ~HasLit(s, p, lit) \/ close = -1 \/ close = q THEN -1 ELSE close + 1

\* `if\s*\([^)]*==\s*null[^)]*\)\s*\{[^}]*throw[^}]*\}` at offset p
NullThrowEnd(s, p) ==
    LET open  == SkipSpace(s, p + 2)
        close == IndexFrom(s, open + 1, ")")
        brace == SkipSpace(s, close + 1)
        end   == IndexFrom(s, brace + 1, "}")
    IN  IF /\ HasLit(s, p, <<"i", "f">>)
           /\ IsAt(s, open, "(")
           /\ close # -1
           /\ \E e \in (open + 1)..(close - 2) :
                 /\ HasLit(s, e, <<"=", "=">>)
                 /\ HasLit(s, SkipSpace(s, e + 2), <<"n", "u", "l", "l">>)
                 /\ SkipSpace(s, e + 2) + 4 <= close
           /\ IsAt(s, brace, "{")
           /\ end # -1
           /\ \E t \in (brace + 1)..(end - 5) : HasLit(s, t, <<"t", "h", "r", "o", "w">>)
        THEN end + 1
        ELSE -1

\* `logger\.(info|debug|error)\([^)]*\);\s*return` at offset p
LoggerReturnEnd(s, p) ==
    LET lit    == <<"l", "o", "g", "g", "e", "r", ".">>
        levels == {<<"i", "n", "f", "o", "(">>, <<"d", "e", "b", "u", "g", "(">>, <<"e", "r", "r", "o", "r", "(">>}
        level  == CHOOSE l \in levels : HasLit(s, p + Len(lit), l)
        close  == IndexFrom(s, p + Len(lit) + Len(level), ")")
        return == SkipSpace(s, close + 2)
    IN  IF /\ HasLit(s, p, lit)
           /\ \E l \in levels : HasLit(s, p + Len(lit), l)
           /\ close # -1
           /\ IsAt(s, close + 1, ";")
           /\ HasLit(s, return, <<"r", "e", "t", "u", "r", "n">>)
        THEN return + 6
        ELSE -1

\* the end of the match of catalog pattern k at offset p, -1 for no match
PatternMatchEnd(k, s, p) ==
    CASE k = 1 -> ResponsePutEnd(s, p)
      [] k = 2 -> SelectCdListEnd(s, p)
      [] k = 3 -> NullThrowEnd(s, p)
      [] k = 4 -> LoggerReturnEnd(s, p)

\* regex.FindAllStringIndex(content, -1) from offset from on: the start
\* offsets of the successive matches that do not overlap
RECURSIVE FindAllFrom(_, _, _)
FindAllFrom(k, s, from) ==
    LET starts == {p \in from..(Len(s) - 1) : PatternMatchEnd(k, s, p) # -1}
    IN  IF starts = {} THEN <<>>
        ELSE CHOOSE all \in
                 {<<p>> \o FindAllFrom(k, s, PatternMatchEnd(k, s, p)) : p \in {Min(starts)}} : TRUE

FindAllStringIndex(k, s) == FindAllFrom(k, s, 0)

\* line 976; the Korean format string reads
\* "duplicate code pattern found (repeated %d times)"
DuplicatePatternMessage(count) ==
    <<"d", "u", "p", "l", "i", "c", "a", "t", "e", " ", "c", "o", "d", "e", " ", "p", "a", "t", "t", "e", "r", "n", " ", "f", "o", "u", "n", "d", " ", "(", "r", "e", "p", "e", "a", "t", "e", "d", " ">> \o Itoa(count) \o <<" ", "t", "i", "m", "e", "s", ")">>

\* the findings of the given matches of catalog pattern k with every match
\* reported from two matches on
PatternIssuesFromTwo(s, ls, k, matches) ==
    IF Len(matches) < 2 THEN <<>>
    ELSE [n \in 1..Len(matches) |->
            [ RuleID      |-> DuplicateRuleID,
              Line        |-> getLineNumberFromPosition(s, matches[n]),
              Column      |-> getColumnFromPosition(s, matches[n]),
              Message     |-> DuplicatePatternMessage(Len(matches)),
              Description |-> duplicatePatterns[k].description,
              CodeSnippet |-> getCodeSnippet(ls, getLineNumberFromPosition(s, matches[n])) ]]

\* lines 966-982: the findings of the given matches of catalog pattern k
PatternIssues(s, ls, k, matches) ==
    IF Len(matches) < MinPatternMatches THEN <<>>
    ELSE [n \in 1..Len(matches) |->
            [ RuleID      |-> DuplicateRuleID,
              Line        |-> getLineNumberFromPosition(s, matches[n]),
              Column      |-> getColumnFromPosition(s, matches[n]),
              Message     |-> DuplicatePatternMessage(Len(matches)),
              Description |-> duplicatePatterns[k].description,
              CodeSnippet |-> getCodeSnippet(ls, getLineNumberFromPosition(s, matches[n])) ]]

\* the loop of lines 962-984 from catalog pattern k on
RECURSIVE PatternIssuesFrom(_, _, _)
PatternIssuesFrom(s, ls, k) ==
    IF k > Len(duplicatePatterns) THEN <<>>
    ELSE (CHOOSE found \in
              {PatternIssues(s, ls, k, matches) : matches \in {FindAllStringIndex(k, s)}} : TRUE)
         \o PatternIssuesFrom(s, ls, k + 1)

\* line 1013: the description of a duplicate-block finding
DuplicateBlockDescription == "the same code block is repeated in several places"

\* DuplicateCodeRule.Check: the possible results, one for each order in
\* which checkDuplicateBlocks can visit its map
DuplicateCodeCheck(s, ls) ==
    { PatternIssuesFrom(s, ls, 1)
        \o [n \in 1..Len(found) |->
              [ RuleID      |-> found[n].RuleID,
                Line        |-> found[n].Line,
                Column      |-> found[n].Column,
                Message     |-> found[n].Message,
                Description |-> DuplicateBlockDescription,
                CodeSnippet |-> found[n].CodeSnippet ]] :
        found \in DuplicateBlockIssues(ls, BuildBlocks(ls)) }

-----------------------------------------------------------------------------
(* Specification SpecPattern: a file is written from up to                 *)
(* MaxPatternPieces pieces of one or two lines, matches and near misses of *)
(* the catalog patterns; then DuplicateCodeRule.Check runs on it.          *)

MaxPatternPieces == 3

PieceResponse == <<"r", "e", "s", "p", "o", "n", "s", "e", "B", "o", "d", "y", ".", "p", "u", "t", "(", "\"", "k", "\"", ",", " ", "v", ")", ";", "\n">>

\* "/*\ud55c*/ responseBody.put(a); responseBody.put(f(b));\n": a comment with
\* a three-byte rune, then two matches on one line
PieceResponseTwice == <<"/", "*", "U+D55C", "*", "/", " ", "r", "e", "s", "p", "o", "n", "s", "e", "B", "o", "d", "y", ".", "p", "u", "t", "(", "a", ")", ";", " ", "r", "e", "s", "p", "o", "n", "s", "e", "B", "o", "d", "y", ".", "p", "u", "t", "(", "f", "(", "b", ")", ")", ";", "\n">>

\* the call is split over two lines: `.` does not cross the line end
PieceResponseSplit == <<"r", "e", "s", "p", "o", "n", "s", "e", "B", "o", "d", "y", ".", "p", "u", "t", "(", "a", ",", "\n", " ", "b", ")", ";", "\n">>

PieceSelect == <<"x", " ", "=", " ", "c", "d", "S", "e", "r", "v", "i", "c", "e", ".", "s", "e", "l", "e", "c", "t", "C", "d", "L", "i", "s", "t", "(", "c", ")", ";", "\n">>

\* no argument: `[^)]+` needs one rune
PieceSelectEmpty == <<"c", "d", "S", "e", "r", "v", "i", "c", "e", ".", "s", "e", "l", "e", "c", "t", "C", "d", "L", "i", "s", "t", "(", ")", ";", "\n">>

PieceLogReturn == <<"l", "o", "g", "g", "e", "r", ".", "e", "r", "r", "o", "r", "(", "m", ")", ";", "\n", " ", "r", "e", "t", "u", "r", "n", ";", "\n">>

PieceNullThrow == <<"i", "f", " ", "(", "u", " ", "=", "=", " ", "n", "u", "l", "l", ")", " ", "{", " ", "t", "h", "r", "o", "w", " ", "e", ";", " ", "}", "\n">>

PatternPieces ==
    { PieceResponse, PieceResponseTwice, PieceResponseSplit, PieceSelect,
      PieceSelectEmpty, PieceLogReturn, PieceNullThrow }

InitPattern ==
    /\ pc = "write"
    /\ content = <<>>
    /\ typed = 0
    /\ astOrigin = "none" /\ javaClass = <<>> /\ jsFunctions = <<>>
    /\ fileLines = FileLines(content) /\ issues = <<>>
    /\ IdleBody /\ IdleAnn /\ IdleDup /\ IdleCfg /\ IdleRun

\* a piece is appended; Lines is what ParseFile makes of the content
AddPatternPiece(piece) ==
    /\ pc = "write"
    /\ typed < MaxPatternPieces
    /\ content' = content \o piece
    /\ fileLines' = FileLines(content')
    /\ typed' = typed + 1
    /\ UNCHANGED <<pc, astOrigin, javaClass, jsFunctions, issues, bodyVars, annVars, dupVars, cfgVars, runVars>>

\* DuplicateCodeRule.Check(file)
CheckDuplicateCode ==
    /\ pc = "write"
    /\ pc' = "checked"
    /\ blocks' = BuildBlocks(fileLines)
    /\ issues' \in DuplicateCodeCheck(content, fileLines)
    /\ UNCHANGED <<content, typed, astOrigin, javaClass, jsFunctions, fileLines, bodyVars, annVars, cfgVars, runVars>>

NextPattern ==
    \/ \E piece \in PatternPieces : AddPatternPiece(piece)
    \/ CheckDuplicateCode

SpecPattern == InitPattern /\ [][NextPattern]_vars

\* the offsets at which the text occurs in the file
Occurrences(text) == {p \in 0..(Len(content) - Len(text)) : HasLit(content, p, text)}

\* the offsets at which the pieces written have a match of catalog pattern k
WrittenMatches(k) ==
    CASE k = 1 -> Occurrences(<<"r", "e", "s", "p", "o", "n", "s", "e", "B", "o", "d", "y", ".", "p", "u", "t", "(">>) \ Occurrences(<<"r", "e", "s", "p", "o", "n", "s", "e", "B", "o", "d", "y", ".", "p", "u", "t", "(", "a", ",", "\n">>)
      [] k = 2 -> Occurrences(<<"c", "d", "S", "e", "r", "v", "i", "c", "e", ".", "s", "e", "l", "e", "c", "t", "C", "d", "L", "i", "s", "t", "(", "c", ")">>)
      [] k = 3 -> Occurrences(<<"i", "f", " ", "(", "u", " ", "=", "=", " ", "n", "u", "l", "l", ")", " ", "{", " ", "t", "h", "r", "o", "w", " ", "e", ";", " ", "}">>)
      [] k = 4 -> Occurrences(<<"l", "o", "g", "g", "e", "r", ".", "e", "r", "r", "o", "r", "(", "m", ")", ";", "\n", " ", "r", "e", "t", "u", "r", "n">>)

\* the offset at which line number n of the file starts
StartOfLine(n) == Len(TextOf(SubSeq(fileLines, 1, n - 1)))

\* the number of the line that holds offset p
LineHolding(p) ==
    CHOOSE n \in 1..Len(fileLines) :
        StartOfLine(n) <= p /\ p <= StartOfLine(n) + Len(fileLines[n])

\* C22: for each catalog pattern, if it matches the file text three or more
\* times the result holds exactly one finding per match, in the order of the
\* matches, at the line of the match and at the column that is one more than
\* the bytes of the line before the match, each message carrying the number
\* of matches; if it matches fewer than three times the result holds no
\* finding of that pattern
C22_OneFindingPerMatch ==
    pc = "checked" =>
        \A k \in 1..Len(duplicatePatterns) :
            LET ofPattern(issue) == issue.Description = duplicatePatterns[k].description
                found   == SelectSeq(issues, ofPattern)
                matches == Ascending(WrittenMatches(k))
            IN  IF Len(matches) < 3 THEN found = <<>>
                ELSE /\ Len(found) = Len(matches)
                     /\ \A n \in 1..Len(found) :
                           LET line == LineHolding(matches[n])
                           IN  /\ found[n].Line = line
                               /\ found[n].Column
                                    = ByteOff(fileLines[line], matches[n] - StartOfLine(line)) + 1
                               /\ found[n].Message = DuplicatePatternMessage(Len(matches))

\* three matches of the first pattern, two of them on the first line behind
\* a comment with a three-byte rune; one match of the second pattern
C22_Witness ==
    /\ pc = "checked"
    /\ content = PieceResponseTwice \o PieceSelect \o PieceResponse
    /\ Len(issues) = 3
    /\ issues[1].Line = 1 /\ issues[1].Column = 9
    /\ issues[2].Line = 1 /\ issues[2].Column = 30
    /\ issues[3].Line = 3 /\ issues[3].Column = 1
    /\ \A n \in 1..3 : issues[n].Message = DuplicatePatternMessage(3)

-----------------------------------------------------------------------------
(* Specification SpecField: a class is written with up to MaxFields field  *)
(* declarations, each with an optional visibility and the modifiers static *)
(* and final in any order; ParseFile parses it and                         *)
(* CodingConventionRule.Check runs on it.                                  *)

MaxFields == 2

\* "public class Config {\n"
HeaderConfig == <<"p", "u", "b", "l", "i", "c", " ", "c", "l", "a", "s", "s", " ", "C", "o", "n", "f", "i", "g", " ", "{", "\n">>

FieldVisibilities == {<<>>, <<"p", "r", "i", "v", "a", "t", "e", " ">>}

FieldModifierOrders ==
    {<<>>, <<"s", "t", "a", "t", "i", "c", " ">>, <<"f", "i", "n", "a", "l", " ">>, <<"s", "t", "a", "t", "i", "c", " ", "f", "i", "n", "a", "l", " ">>, <<"f", "i", "n", "a", "l", " ", "s", "t", "a", "t", "i", "c", " ">>}

FieldNames == {<<"M", "A", "X", "_", "S", "I", "Z", "E">>, <<"c", "o", "u", "n", "t">>}

\* "  private static final int MAX_SIZE = 1;\n" and the like
FieldDeclaration(visibility, modifiers, name) ==
    <<" ", " ">> \o visibility \o modifiers \o <<"i", "n", "t", " ">> \o name \o <<" ", "=", " ", "1", ";", "\n">>

\* the rule NewCodingConventionRule builds for an enabled configuration
ConventionsRule ==
    [ Ctor   |-> "NewCodingConventionRule",
      config |-> [ID |-> "java-coding-conventions", Severity |-> <<"h", "i", "g", "h">>,
                  Category |-> "style", Enabled |-> TRUE] ]

PathConfig == <<"C", "o", "n", "f", "i", "g", ".", "j", "a", "v", "a">>

InitField ==
    /\ pc = "write"
    /\ content = HeaderConfig
    /\ typed = 0
    /\ IdleBody /\ IdleAnn /\ IdleRule /\ IdleDup /\ IdleCfg /\ IdleRun

WriteField(visibility, modifiers, name) ==
    /\ pc = "write"
    /\ typed < MaxFields
    /\ content' = content \o FieldDeclaration(visibility, modifiers, name)
    /\ typed' = typed + 1
    /\ UNCHANGED <<pc, bodyVars, annVars, ruleVars, dupVars, cfgVars, runVars>>

\* the closing brace of the class
CloseClass ==
    /\ pc = "write"
    /\ pc' = "closed"
    /\ content' = content \o <<"}", "\n">>
    /\ UNCHANGED <<typed, bodyVars, annVars, ruleVars, dupVars, cfgVars, runVars>>

\* CodingConventionRule.Check(file) on the ParsedFile of ParseFile
CheckConventions ==
    /\ pc = "parsed"
    /\ pc' = "checked"
    /\ issues' = CodingConventionCheck(ConventionsRule,
                    [ Path      |-> PathConfig,
                      Language  |-> "java",
                      Content   |-> content,
                      Lines     |-> fileLines,
                      ASTKind   |-> "JavaClass",
                      JavaClass |-> javaClass ])
    /\ UNCHANGED <<content, typed, astOrigin, javaClass, jsFunctions, fileLines, bodyVars, annVars, dupVars, cfgVars, runVars>>

NextField ==
    \/ \E visibility \in FieldVisibilities, modifiers \in FieldModifierOrders, name \in FieldNames :
          WriteField(visibility, modifiers, name)
    \/ CloseClass
    \/ ParseFile
    \/ CheckConventions

SpecField == InitField /\ [][NextField]_vars

\* the camelCase findings of checkNamingConvention that stand at the line
NamingFindingsAt(line) ==
    {n \in 1..Len(issues) :
        /\ issues[n].Line = line
        /\ HasPrefix(issues[n].Message, <<"f", "i", "e", "l", "d", " ", "n", "a", "m", "e", " ", "i", "s", " ", "n", "o", "t", " ", "c", "a", "m", "e", "l", "C", "a", "s", "e", ":", " ">>)}

\* C23: a field declared with both static and final, in either order, has
\* IsStatic and IsFinal both true, so it is a constant and the camelCase
\* check of field names reports nothing for it
C23_StaticFinalIsConstant ==
    pc = "checked" =>
        \A i \in 1..Len(javaClass.Fields) :
            LET field == javaClass.Fields[i]
                line  == fileLines[field.Line]
            IN  (Contains(line, <<"s", "t", "a", "t", "i", "c", " ">>) /\ Contains(line, <<"f", "i", "n", "a", "l", " ">>))
                    => /\ field.IsStatic
                       /\ field.IsFinal
                       /\ NamingFindingsAt(field.Line) = {}

-----------------------------------------------------------------------------
(* Specification SpecLine: a class is written from up to MaxLinePieces     *)
(* pieces, each a complete method, a blank line or a comment line, and     *)
(* parsed by ParseFile.                                                    *)

MaxLinePieces == 4

\* " public void save(User u) {\n }\n"
MethodSave == SigSave \o <<" ", "}", "\n">>

\* " public User find(User u) {\n }\n"
MethodFind == SigFind \o <<" ", "}", "\n">>

BlankLine == <<"\n">>

CommentLine == <<" ", "/", "/", " ", "n", "o", "t", "e", "\n">>

LinePieces == {MethodSave, MethodFind, BlankLine, CommentLine}

InitLine ==
    /\ pc = "write"
    /\ content = HeaderPlain
    /\ typed = 0
    /\ IdleBody /\ IdleAnn /\ IdleRule /\ IdleDup /\ IdleCfg /\ IdleRun

AddLinePiece(piece) ==
    /\ pc = "write"
    /\ typed < MaxLinePieces
    /\ content' = content \o piece
    /\ typed' = typed + 1
    /\ UNCHANGED <<pc, bodyVars, annVars, ruleVars, dupVars, cfgVars, runVars>>

NextLine ==
    \/ \E piece \in LinePieces : AddLinePiece(piece)
    \/ CloseClass
    \/ ParseFile

SpecLine == InitLine /\ [][NextLine]_vars

\* C24: for every method returned by extractJavaMethods, Line is the number
\* of the source line that holds the signature of the declaration (the name
\* followed by the parameter list), also when blank lines stand before the
\* declaration
C24_LineOfSignature ==
    pc = "parsed" =>
        \A i \in 1..Len(javaClass.Methods) :
            LET method == javaClass.Methods[i]
            IN  /\ method.Line \in 1..Len(fileLines)
                /\ Contains(fileLines[method.Line], method.Name \o <<"(">>)

-----------------------------------------------------------------------------
(* parseJavaScript (part_000:286-334): six regular expressions, each run   *)
(* over the whole content in turn; the matches of one expression are       *)
(* appended before those of the next.                                      *)
(***************************************************************************)
\* `\(([^)]*)\)\s*` from the offset o of the "(": <<offset of ")", offset
\* after the white space behind it>>, <<>> when there is no ")"
ParamsAt(s, o) ==
    LET close == IndexFrom(s, o + 1, ")")
    IN  IF ~IsAt(s, o, "(") \/ close = -1 THEN <<>>
        ELSE <<close, SkipSpace(s, close + 1)>>

\* a match of a declaration pattern: start and end offsets, group 1 and 2
JsMatch(p, end, name, params) ==
    [start |-> p, end |-> end, group1 |-> name, group2 |-> params]

\* `keyword\s+(\w+)\s*\(([^)]*)\)\s*\{` with keyword "function" at offset p
FunctionMatchAt(s, p) ==
    LET a      == SkipSpace(s, p + 8)
        e      == SkipWord(s, a)
        o      == SkipSpace(s, e)
        params == ParamsAt(s, o)
    IN  IF /\ HasLit(s, p, <<"f", "u", "n", "c", "t", "i", "o", "n">>)
           /\ a > p + 8
           /\ e > a
           /\ params # <<>>
           /\ IsAt(s, params[2], "{")
        THEN JsMatch(p, params[2] + 1, Slice(s, a, e), Slice(s, o + 1, params[1]))
        ELSE NoMatch

\* `(\w+)\s*sep\s*function\s*\(([^)]*)\)\s*\{` at offset p, sep ":" or "="
AssignedFunctionMatchAt(s, p, sep) ==
    LET e      == SkipWord(s, p)
        c      == SkipSpace(s, e)
        f      == SkipSpace(s, c + 1)
        o      == SkipSpace(s, f + 8)
        params == ParamsAt(s, o)
    IN  IF /\ e > p
           /\ IsAt(s, c, sep)
           /\ HasLit(s, f, <<"f", "u", "n", "c", "t", "i", "o", "n">>)
           /\ params # <<>>
           /\ IsAt(s, params[2], "{")
        THEN JsMatch(p, params[2] + 1, Slice(s, p, e), Slice(s, o + 1, params[1]))
        ELSE NoMatch

\* `(\w+)\s*=\s*\(([^)]*)\)\s*=>\s*\{` with the name at offset a; the match
\* is reported as starting at p
ArrowFrom(s, p, a) ==
    LET e      == SkipWord(s, a)
        c      == SkipSpace(s, e)
        o      == SkipSpace(s, c + 1)
        params == ParamsAt(s, o)
        brace  == SkipSpace(s, params[2] + 2)
    IN  IF /\ e > a
           /\ IsAt(s, c, "=")
           /\ params # <<>>
           /\ HasLit(s, params[2], <<"=", ">">>)
           /\ IsAt(s, brace, "{")
        THEN JsMatch(p, brace + 1, Slice(s, a, e), Slice(s, o + 1, params[1]))
        ELSE NoMatch

\* `keyword\s+(\w+)\s*=\s*\(([^)]*)\)\s*=>\s*\{` at offset p
DeclaredArrowMatchAt(s, p, keyword) ==
    LET a == SkipSpace(s, p + Len(keyword))
    IN  IF HasLit(s, p, keyword) /\ a > p + Len(keyword)
        THEN ArrowFrom(s, p, a)
        ELSE NoMatch

\* lines 290-297: the six patterns in order
jsPatterns ==
    << [idiom |-> "function",        text |-> "function\\s+(\\w+)\\s*\\(([^)]*)\\)\\s*\\{"],
       [idiom |-> "method",          text |-> "(\\w+)\\s*:\\s*function\\s*\\(([^)]*)\\)\\s*\\{"],
       [idiom |-> "assigned",        text |-> "(\\w+)\\s*=\\s*function\\s*\\(([^)]*)\\)\\s*\\{"],
       [idiom |-> "arrow",           text |-> "(\\w+)\\s*=\\s*\\(([^)]*)\\)\\s*=>\\s*\\{"],
       [idiom |-> "const arrow",     text |-> "const\\s+(\\w+)\\s*=\\s*\\(([^)]*)\\)\\s*=>\\s*\\{"],
       [idiom |-> "let arrow",       text |-> "let\\s+(\\w+)\\s*=\\s*\\(([^)]*)\\)\\s*=>\\s*\\{"] >>

\* the match of pattern k at offset p, or NoMatch
JsMatchAt(k, s, p) ==
    CASE k = 1 -> FunctionMatchAt(s, p)
      [] k = 2 -> AssignedFunctionMatchAt(s, p, ":")
      [] k = 3 -> AssignedFunctionMatchAt(s, p, "=")
      [] k = 4 -> ArrowFrom(s, p, p)
      [] k = 5 -> DeclaredArrowMatchAt(s, p, <<"c", "o", "n", "s", "t">>)
      [] k = 6 -> DeclaredArrowMatchAt(s, p, <<"l", "e", "t">>)

\* strings.Split(s, ",") with every element trimmed; none for the empty string
SplitParameters(s) ==
    LET commas == {k \in 1..Len(s) : s[k] = ","}
        nth(i) == IF i = 0 THEN 0
                  ELSE IF i > Cardinality(commas) THEN Len(s) + 1
                  ELSE CHOOSE k \in commas : Cardinality({j \in commas : j <= k}) = i
    IN  IF s = <<>> THEN <<>>
        ELSE [i \in 1..(Cardinality(commas) + 1) |->
                TrimSpace(SubSeq(s, nth(i - 1) + 1, nth(i) - 1))]

\* strings.Contains(pattern, "=>") of line 316
IsArrowPattern(k) == k \in {4, 5, 6}

\* the JSFunction built from one match of pattern k (lines 306-324)
JSFunctionOf(s, k, m) ==
    [ Name       |-> m.group1,
      Parameters |-> SplitParameters(m.group2),
      IsArrow    |-> IsArrowPattern(k),
      Line       |-> getLineNumber(s, m.start) ]

\* regex.FindAllStringSubmatch for pattern k: the functions of the
\* successive leftmost matches from offset from on
RECURSIVE JsFunctionsFrom(_, _, _)
JsFunctionsFrom(s, k, from) ==
    LET starts == {p \in from..(Len(s) - 1) : JsMatchAt(k, s, p) # NoMatch}
    IN  IF starts = {} THEN <<>>
        ELSE CHOOSE all \in
                 { <<JSFunctionOf(s, k, m)>> \o JsFunctionsFrom(s, k, m.end) :
                     m \in {JsMatchAt(k, s, Min(starts))} } : TRUE

\* the loop of lines 299-330 from pattern k on
RECURSIVE JsPatternsFrom(_, _)
JsPatternsFrom(s, k) ==
    IF k > Len(jsPatterns) THEN <<>>
    ELSE JsFunctionsFrom(s, k, 0) \o JsPatternsFrom(s, k + 1)

parseJavaScript(s) == JsPatternsFrom(s, 1)

-----------------------------------------------------------------------------
(* Specification SpecScript: a script is written from up to MaxDecls       *)
(* pieces, a declaration in one of the six idioms or a call, and parsed by *)
(* ParseFile.                                                              *)

MaxDecls == 3

DeclFunction == <<"f", "u", "n", "c", "t", "i", "o", "n", " ", "f", "(", "a", ",", " ", "b", ")", " ", "{", "\n", "}", "\n">>

DeclMethod == <<"v", "a", "r", " ", "o", " ", "=", " ", "{", " ", "r", "u", "n", ":", " ", "f", "u", "n", "c", "t", "i", "o", "n", "(", ")", " ", "{", "\n", "}", " ", "}", ";", "\n">>

DeclAssigned == <<"h", " ", "=", " ", "f", "u", "n", "c", "t", "i", "o", "n", "(", "x", ")", " ", "{", "\n", "}", ";", "\n">>

DeclArrow == <<"k", " ", "=", " ", "(", "x", ")", " ", "=", ">", " ", "{", "\n", "}", ";", "\n">>

DeclConstArrow == <<"c", "o", "n", "s", "t", " ", "g", " ", "=", " ", "(", "x", ")", " ", "=", ">", " ", "{", "\n", "}", ";", "\n">>

DeclLetArrow == <<"l", "e", "t", " ", "m", " ", "=", " ", "(", ")", " ", "=", ">", " ", "{", "\n", "}", ";", "\n">>

CallLine == <<"f", "(", "1", ")", ";", "\n">>

ScriptPieces ==
    { DeclFunction, DeclMethod, DeclAssigned, DeclArrow, DeclConstArrow,
      DeclLetArrow, CallLine }

InitScript ==
    /\ pc = "write"
    /\ content = <<>>
    /\ typed = 0
    /\ IdleBody /\ IdleAnn /\ IdleRule /\ IdleDup /\ IdleCfg /\ IdleRun

AddScriptPiece(piece) ==
    /\ pc = "write"
    /\ typed < MaxDecls
    /\ content' = content \o piece
    /\ typed' = typed + 1
    /\ UNCHANGED <<pc, bodyVars, annVars, ruleVars, dupVars, cfgVars, runVars>>

\* parser.ParseFile for a .js file: AST is what parseJavaScript returns
ParseScript ==
    /\ pc = "write"
    /\ pc' = "parsed"
    /\ astOrigin' = "ParseFile"
    /\ jsFunctions' = parseJavaScript(content)
    /\ fileLines' = FileLines(content)
    /\ UNCHANGED <<content, typed, javaClass, issues, bodyVars, annVars, dupVars, cfgVars, runVars>>

NextScript ==
    \/ \E piece \in ScriptPieces : AddScriptPiece(piece)
    \/ ParseScript

SpecScript == InitScript /\ [][NextScript]_vars

\* the declarations written: the start offsets of the pieces that declare a
\* function, with the name declared and whether the idiom is an arrow
DeclarationsWritten ==
    LET at(piece, skip, name, arrow) ==
            { [Offset |-> p + skip, Name |-> name, IsArrow |-> arrow] :
                p \in {q \in 0..(Len(content) - Len(piece)) : HasLit(content, q, piece)} }
    IN  at(DeclFunction, 0, <<"f">>, FALSE)
          \cup at(DeclMethod, 10, <<"r", "u", "n">>, FALSE)
          \cup at(DeclAssigned, 0, <<"h">>, FALSE)
          \cup at(DeclArrow, 0, <<"k">>, TRUE)
          \cup at(DeclConstArrow, 0, <<"g">>, TRUE)
          \cup at(DeclLetArrow, 0, <<"m">>, TRUE)

\* C25: the result of parseJavaScript lists each function declaration of the
\* source exactly once, in source order, and IsArrow is true exactly for the
\* declarations written in an arrow idiom
C25_EachDeclarationOnce ==
    pc = "parsed" =>
        LET offsets == Ascending({d.Offset : d \in DeclarationsWritten})
            decl(n) == CHOOSE d \in DeclarationsWritten : d.Offset = offsets[n]
        IN  /\ Len(jsFunctions) = Len(offsets)
            /\ \A n \in 1..Len(jsFunctions) :
                  /\ jsFunctions[n].Name = decl(n).Name
                  /\ jsFunctions[n].IsArrow = decl(n).IsArrow

\* C26: extractMethodBody uses one offset unit: also when multi-byte runes
\* stand before the declaration, a result that is not empty is the text from
\* the declaration's own opening brace to its matching closing brace, the
\* result when every rune is one unit wide
C26_OneOffsetUnit ==
    (pc = "extracted" /\ methodBody # <<>>) =>
        /\ CorrectlyNested(content)
        /\ methodBody = Slice(content, DeclBrace(content), MatchingClose(content) + 1)

-----------------------------------------------------------------------------
(* Specification SpecOverlap: a file is written from up to MaxPieces       *)
(* pieces, a piece being a run of four structurally different statements,  *)
(* a blank line, a comment line or a return statement; then                *)
(* checkDuplicateBlocks runs on it.                                        *)

\* four statements, no two with the same normalizeCodeLine result
BlockShort ==
    << <<" ", "a", "(", ")", ";">>, <<" ", "b", "=", "1", ";">>, <<" ", "c", "=", "\"", "s", "\"", ";">>, <<" ", "d", "-", "-", ";">> >>

SepComment == << <<" ", "/", "/", " ", "n", "o", "t", "e">> >>

OverlapPieces == {BlockShort, SepBlank, SepComment, SepReturn}

NextOverlap ==
    \/ \E piece \in OverlapPieces : AddPiece(piece)
    \/ CheckDuplicateBlocks

SpecOverlap == InitDup /\ [][NextOverlap]_vars

\* the lines of the file that normalizeBlock does not skip (lines 1029-1031)
SubstantiveLines ==
    {n \in 1..Len(fileLines) :
        LET trimmed == TrimSpace(fileLines[n])
        IN  ~(\/ trimmed = <<>>
              \/ HasPrefix(trimmed, <<"/", "/">>)
              \/ HasPrefix(trimmed, <<"*">>))}

\* C27: a run of substantive lines that occurs once is never reported as a
\* duplicate of itself through two overlapping windows that differ only in
\* a leading or trailing blank or comment line: a file whose substantive
\* lines are all structurally different (no two have the same
\* normalizeCodeLine result) yields no duplicate-block finding.
C27_NoSelfDuplicate ==
    (/\ pc = "checked"
     /\ \A n, m \in SubstantiveLines :
            n # m => normalizeCodeLine(TrimSpace(fileLines[n]))
                        # normalizeCodeLine(TrimSpace(fileLines[m])))
        => issues = <<>>

-----------------------------------------------------------------------------
(* Specification SpecSpring: a run is configured with Spring rules of the  *)
(* java section, the engine is built, a Java file is written from up to    *)
(* MaxSpringPieces pieces and Engine.CheckFile runs on it.                 *)

MaxSpringPieces == 2

RuleSpring(id, category) ==
    [ID |-> id, Severity |-> <<"h", "i", "g", "h">>, Category |-> category, Enabled |-> "true"]

RulePrivate    == RuleSpring("spring-transactional-private", "reliability")
RuleRollback   == RuleSpring("spring-transactional-rollback", "reliability")
RuleMissing    == RuleSpring("spring-security-missing", "security")
RuleDeprecated == RuleSpring("spring-secured-deprecated", "best-practices")

\* the configuration files a run is started with
SpringYamls ==
    { << [Language |-> "java", Rules |-> rules] >> :
        rules \in { <<RulePrivate>>, <<RuleRollback>>, <<RulePrivate, RuleRollback>>,
                    <<RuleMissing>>, <<RuleDeprecated>>, <<RuleDeprecated, RuleMissing>>,
                    <<RulePrivate, RuleMissing>> } }

PieceRestController ==
    <<"@", "R", "e", "s", "t", "C", "o", "n", "t", "r", "o", "l", "l", "e", "r", "\n", "p", "u", "b", "l", "i", "c", " ", "c", "l", "a", "s", "s", " ", "A", " ", "{", "\n">>

PieceTxPrivate ==
    <<" ", "@", "T", "r", "a", "n", "s", "a", "c", "t", "i", "o", "n", "a", "l", "\n", " ", "p", "r", "i", "v", "a", "t", "e", " ", "v", "o", "i", "d", " ", "s", "a", "v", "e", "(", ")", " ", "{", "\n", " ", "}", "\n">>

PieceTxThrows ==
    <<" ", "@", "T", "r", "a", "n", "s", "a", "c", "t", "i", "o", "n", "a", "l", "\n", " ", "p", "u", "b", "l", "i", "c", " ", "v", "o", "i", "d", " ", "l", "o", "a", "d", "(", ")", " ", "t", "h", "r", "o", "w", "s", " ", "E", "x", "c", "e", "p", "t", "i", "o", "n", " ", "{", "\n", " ", "}", "\n">>

PieceTxRollbackFor ==
    <<" ", "@", "T", "r", "a", "n", "s", "a", "c", "t", "i", "o", "n", "a", "l", "(", "r", "o", "l", "l", "b", "a", "c", "k", "F", "o", "r", " ", "=", " ", "E", "x", "c", "e", "p", "t", "i", "o", "n", ".", "c", "l", "a", "s", "s", ")", "\n", " ", "p", "u", "b", "l", "i", "c", " ", "v", "o", "i", "d", " ", "r", "e", "a", "d", "(", ")", " ", "t", "h", "r", "o", "w", "s", " ", "E", "x", "c", "e", "p", "t", "i", "o", "n", " ", "{", "\n", " ", "}", "\n">>

PieceDelete ==
    <<" ", "p", "u", "b", "l", "i", "c", " ", "v", "o", "i", "d", " ", "d", "e", "l", "e", "t", "e", "U", "s", "e", "r", "(", "i", "n", "t", " ", "i", "d", ")", " ", "{", "\n", " ", "}", "\n">>

PieceSecuredAdd ==
    <<" ", "@", "S", "e", "c", "u", "r", "e", "d", "(", "\"", "A", "\"", ")", "\n", " ", "p", "u", "b", "l", "i", "c", " ", "v", "o", "i", "d", " ", "a", "d", "d", "U", "s", "e", "r", "(", ")", " ", "{", "\n", " ", "}", "\n">>

PieceFind ==
    <<" ", "p", "u", "b", "l", "i", "c", " ", "v", "o", "i", "d", " ", "f", "i", "n", "d", "(", ")", " ", "{", "\n", " ", "}", "\n">>

SpringPieces ==
    {PieceRestController, PieceTxPrivate, PieceTxThrows, PieceTxRollbackFor,
     PieceDelete, PieceSecuredAdd, PieceFind}

PathService == <<"A", ".", "j", "a", "v", "a">>

InitSpring ==
    /\ pc = "config"
    /\ content = <<>>
    /\ typed = 0
    /\ yaml \in SpringYamls
    /\ cfg = <<>> /\ cfgOrigin = "none" /\ minSeverity = <<>> /\ rulesFilter = <<>>
    /\ engine = <<>>
    /\ IdleBody /\ IdleAnn /\ IdleRule /\ IdleDup /\ IdleRun

AddSpringPiece(piece) ==
    /\ pc = "engine"
    /\ typed < MaxSpringPieces
    /\ content' = content \o piece
    /\ typed' = typed + 1
    /\ UNCHANGED <<pc, bodyVars, annVars, ruleVars, dupVars, cfgVars, runVars>>

\* parser.ParseFile on the file, then engine.CheckFile(file, "java")
CheckSpringFile ==
    /\ pc = "engine"
    /\ pc' = "checked"
    /\ checkedFile' = ParsedFileOf(PathService, content, "java")
    /\ checkedLanguage' = "java"
    /\ issues' = CheckFile(engine, checkedFile', "java")
    /\ UNCHANGED <<content, typed, files, result, warnings, exitStatus, astOrigin,
                   javaClass, jsFunctions, fileLines, bodyVars, annVars, dupVars, cfgVars>>

NextSpring ==
    \/ ReadConfigFile
    \/ CreateEngine
    \/ \E piece \in SpringPieces : AddSpringPiece(piece)
    \/ CheckSpringFile

SpecSpring == InitSpring /\ [][NextSpring]_vars

\* the identifiers of the rules the engine registered for Java
RegisteredJavaIds == {engine["java"][k].config.ID : k \in 1..Len(engine["java"])}

\* C28: each enabled rule identifier reports only its own check and each
\* detected occurrence is reported once: in the result of CheckFile for one
\* file no two findings have the same message, line and column, also when
\* both identifiers that share a constructor are enabled; and with only
\* spring-transactional-private enabled no rollbackFor finding is emitted.
C28_OwnCheckOnce ==
    pc = "checked" =>
        /\ \A n, m \in 1..Len(issues) :
              (/\ issues[n].Message = issues[m].Message
               /\ issues[n].Line = issues[m].Line
               /\ issues[n].Column = issues[m].Column) => n = m
        /\ RegisteredJavaIds = {"spring-transactional-private"} =>
              \A n \in 1..Len(issues) : issues[n].Message # RollbackMessage

\* C29: CheckFile is deterministic: two evaluations of the same file with
\* the same registry return the same sequence of findings in the same
\* order, also when the file holds two or more distinct duplicate-block
\* groups.  With java-duplicate-code registered the findings of
\* checkDuplicateBlocks end the result of CheckFile: every sequence that an
\* evaluation of checkDuplicateBlocks on the file can return is the one
\* that this evaluation returned.
C29_Deterministic ==
    pc = "checked" =>
        \A other \in DuplicateBlockIssues(fileLines, blocks) : other = issues

\* the sum of the values of a Go map of ints
RECURSIVE SumOfCounts(_)
SumOfCounts(m) ==
    IF DOMAIN m = {} THEN 0
    ELSE LET k == CHOOSE key \in DOMAIN m : TRUE
         IN  m[k] + SumOfCounts([key \in DOMAIN m \ {k} |-> m[key]])

\* the collected files of the run: the supported files of the walk
CollectedFiles == SelectSeq(files, isSupportedFile)

\* the findings that CheckFile returns for a collected file, none for a file
\* that cannot be read
FindingsOfFile(path) ==
    IF RunDisk[path].Readable
    THEN CheckFile(engine, ParsedFileOf(path, RunDisk[path].Raw, detectLanguage(path)),
                   detectLanguage(path))
    ELSE <<>>

\* C30: summary consistency: for every AnalysisResult returned by Analyze,
\* TotalIssues equals the number of Issues, the SeverityCount values sum to
\* TotalIssues, the CategoryCount values sum to TotalIssues, every finding's
\* File is the path of the file it was produced from, TotalFiles is the
\* number of collected files, and the LanguageCount values sum to the number
\* of files analysed without error (at most TotalFiles).
C30_SummaryConsistent ==
    Analyzed =>
        /\ result.Summary.TotalIssues = Len(result.Issues)
        /\ SumOfCounts(result.Summary.SeverityCount) = result.Summary.TotalIssues
        /\ SumOfCounts(result.Summary.CategoryCount) = result.Summary.TotalIssues
        /\ \A k \in 1..Len(CollectedFiles) :
              Cardinality({i \in 1..Len(result.Issues) :
                              result.Issues[i].File = CollectedFiles[k]})
                  = Len(FindingsOfFile(CollectedFiles[k]))
        /\ \A i \in 1..Len(result.Issues) :
              \E k \in 1..Len(CollectedFiles) : result.Issues[i].File = CollectedFiles[k]
        /\ result.Summary.TotalFiles = Len(CollectedFiles)
        /\ SumOfCounts(result.Summary.LanguageCount)
               = Cardinality({k \in 1..Len(CollectedFiles) : RunDisk[CollectedFiles[k]].Readable})
        /\ SumOfCounts(result.Summary.LanguageCount) <= result.Summary.TotalFiles

\* a run over a file with four findings, two of them of the same severity,
\* and a file that cannot be read
C30_Witness ==
    /\ Analyzed
    /\ files = <<PathBadName, PathGone>>
    /\ result.Summary.TotalFiles = 2
    /\ SumOfCounts(result.Summary.LanguageCount) = 1
    /\ result.Summary.TotalIssues >= 3
    /\ \E i, j \in 1..Len(result.Issues) :
          i # j /\ result.Issues[i].Severity = result.Issues[j].Severity
    /\ \A i \in 1..Len(result.Issues) : result.Issues[i].File = PathBadName

====
